---- MODULE Spec2Model ----
(***************************************************************************)
(* A model of gemini-search-agent: the tool-augmented conversation turn of *)
(* GeminiAgent.ainvoke (gemini_agent.py) and the search-and-fetch          *)
(* subsystem DDGSearch (tools/ddg_search.py).                               *)
(*                                                                         *)
(* Spec       explores one agent turn against every behaviour of the model *)
(*            provider and of the tools.                                   *)
(* SearchSpec explores one search (sync or async) against every behaviour  *)
(*            of the search provider and of the HTTP transport.            *)
(*                                                                         *)
(* The steps of each coroutine are its suspension points: one action per   *)
(* awaited request, tool call, page GET or sleep, together with all the    *)
(* code that runs up to the next suspension point.                         *)
(***************************************************************************)
EXTENDS Integers, Sequences, FiniteSets, TLC

VARIABLES
    \* ---- GeminiAgent: configuration (self.*) and arguments of ainvoke
    self_retries,       \* self.retries
    self_retry_delay,   \* self.retry_delay
    output_format,      \* "message" | "raw"
    \* ---- GeminiAgent.ainvoke: locals
    pc,                 \* position of the coroutine
    retries,            \* local retry counter
    response,           \* latest model response
    fcIdx,              \* index of the function call being dispatched
    tool_responses,     \* parts collected for the follow-up request
    sleep_sec,          \* duration computed by the except clause
    retval,             \* value returned by ainvoke
    raised,             \* exception class escaping ainvoke, "" if none
    \* ---- history of the turn (observation only)
    nRequests,          \* chat.send_message calls issued
    nFollowups,         \* of which follow-ups carrying tool results
    nToolResponses,     \* responses received that contained function calls
    nCallsRequested,    \* function calls contained in those responses
    nDispatched,        \* _call_tool_function_async calls
    nToolInvocations,   \* Tool.ainvoke calls
    dispatchCount,      \* per call of the latest response: times dispatched
    toolOutcomes,       \* per part of tool_responses: what the tool did
    nPartsSent,         \* parts sent to the model in follow-up requests
    lastOutcome,        \* outcome of the latest request
    lastEvent,          \* "none" | "request" | "tool" | "sleep"
    lastSleep,          \* duration of the latest completed sleep
    hadError,           \* some request of the turn raised
    onlyRateLimited     \* every request of the turn raised a rate-limit error

VARIABLES
    \* ---- GeminiAgent: the chat session and the default generation config
    chat_history,       \* self.chat: roles of the contents the session recorded
    self_config,        \* self._config
    \* ---- GeminiAgent.ainvoke: arguments
    thinking_budget,    \* None or a number of tokens
    files,              \* inputs to attach
    \* ---- GeminiAgent.ainvoke: locals
    config,             \* the copy of self._config the requests are sent with
    uploads,            \* the upload_file coroutines gathered before the loop
    attached_files,     \* the handles asyncio.gather returned
    \* ---- the calls of ainvoke made on this agent (observation only)
    turn,               \* number of the call: 1 for the first
    prevTurn            \* how the call before this one ended

sessionVars == <<chat_history, self_config, thinking_budget, files, config,
                 uploads, attached_files, turn, prevTurn>>

agentVars == <<self_retries, self_retry_delay, output_format, pc, retries,
               response, fcIdx, tool_responses, sleep_sec, retval, raised,
               nRequests, nFollowups, nToolResponses, nCallsRequested,
               nDispatched, nToolInvocations, dispatchCount, toolOutcomes,
               nPartsSent, lastOutcome, lastEvent, lastSleep, hadError,
               onlyRateLimited, sessionVars>>

VARIABLES
    \* ---- DDGSearch: configuration (self.*)
    ddg_retries,        \* self.retries
    ddg_retry_delay,    \* self.retry_delay
    num_results,        \* self.num_results, 0 for None
    filter_func,        \* self.filter_func
    cleaning,           \* self.cleaning
    cache,              \* self.cache
    mode,               \* "sync": search_with_contents, "async": ..._async
    now,                \* time.time()
    \* ---- search_with_contents(_async): locals
    spc,                \* position of the search
    attempt,            \* iterations of the provider loop started
    search_results,     \* the list being built
    tasks,              \* one _get_website_contents(_async) call per eligible result
    sretval,            \* value returned by the search
    sraised,            \* exception class escaping the search, "" if none
    \* ---- history of the search (observation only)
    provHist,           \* the provider calls so far: the last outcome, how many
                        \* were transient failures, whether those were all empty lists
    providerResults,    \* the list the provider returned last
    filterOut,          \* what filter_func returned
    searchSleeps,       \* durations slept by the provider loop, in order
    nFetchCalls,        \* _get_website_contents(_async) calls
    nGets,              \* client.get calls
    nFetchSleeps        \* sleeps of the fetch loops

searchCfgVars == <<ddg_retries, ddg_retry_delay, num_results, filter_func,
                   cleaning, mode, now>>

searchVars == <<searchCfgVars, cache, spc, attempt, search_results, tasks,
                sretval, sraised, provHist, providerResults, filterOut,
                searchSleeps, nFetchCalls, nGets, nFetchSleeps>>

VARIABLES
    \* ---- history of the cache operations of the caller (observation only)
    cacheHist           \* the last operation and its outcome, the keys ever
                        \* set, the time each held value was set

VARIABLES
    \* ---- the two page fetchers run side by side (observation only)
    fetchRuns           \* the url, the transport's answers, and what
                        \* _get_website_contents and its async twin did

VARIABLES
    \* ---- DDGSearch objects constructed in one process, and the cache objects
    \* ---- they refer to
    instances           \* heap: the cache objects by reference; clients: the
                        \* `cache` attribute of each DDGSearch constructed

vars == <<agentVars, searchVars, cacheHist, fetchRuns, instances>>

----------------------------------------------------------------------------
(* Bounds of the exploration *)

\* largest configured retry budget explored
MaxBudget == 2
\* cap on the model requests of one turn (an unbounded budget never stops)
MaxRequests == 4
\* cap on the tool-call rounds of one turn
MaxRounds == 2
\* most function calls in one model response
MaxCalls == 2
\* largest DDGSearch.retries explored
MaxDdgRetries == 3
\* longest result list the search provider returns
MaxResults == 2
\* most fetches called one after the other on one DDGSearch
MaxFetches == 2
\* DDGSearch objects constructed in one process
MaxInstances == 2

\* calls of ainvoke made on one agent
MaxTurns == 2

\* files attached to one call of ainvoke
MaxFiles == 2

\* cache operations of one caller explored
MaxCacheOps == 4

\* time.time() runs from 0 to MaxTime
MaxTime == 2

----------------------------------------------------------------------------
(* Text helpers *)

Digit == <<"0", "1", "2", "3", "4", "5", "6", "7", "8", "9">>

RECURSIVE Digits(_)
\* str(n) for n >= 0, as a sequence of characters
Digits(n) == IF n < 10 THEN <<Digit[n + 1]>>
             ELSE Digits(n \div 10) \o <<Digit[(n % 10) + 1]>>

\* the provider's encoding of a retry delay of d seconds: "7s"
EncodeDuration(d) == Digits(d) \o <<"s">>

\* str.replace(ch, "")
StrRemove(s, ch) == SelectSeq(s, LAMBDA c : c # ch)

DigitValue(c) == CHOOSE i \in 0..9 : Digit[i + 1] = c

IsDigit(c) == \E i \in 1..10 : Digit[i] = c

RECURSIVE DecimalValue(_)
DecimalValue(s) == IF s = <<>> THEN 0
                   ELSE 10 * DecimalValue(SubSeq(s, 1, Len(s) - 1)) + DigitValue(s[Len(s)])

\* float(s) on an unsigned integer literal; -1 stands for ValueError
ParseFloat(s) == IF s # <<>> /\ \A i \in 1..Len(s) : IsDigit(s[i])
                 THEN DecimalValue(s) ELSE -1

----------------------------------------------------------------------------
(* Python values: strings are sequences of text fragments *)

Str(fragments) == [t |-> "str", v |-> fragments]

None == [t |-> "None"]

List(items) == [t |-> "list", v |-> items]

Unset == [t |-> "unset"]

\* bool(x) for a string or None
Truthy(x) == x.t = "str" /\ x.v # <<>>

\* `fragment in s` for a string held as fragments
Contains(s, fragment) == \E i \in 1..Len(s) : s[i] = fragment

----------------------------------------------------------------------------
(* DDGSearchCache *)

DefaultMaxSize == 50

DefaultMaxAge == -1

DefaultGcTiming == 10

\* self.cache = None
NoCache == [present |-> FALSE, data |-> <<>>, metadata |-> <<>>,
            max_size |-> DefaultMaxSize, max_age |-> DefaultMaxAge,
            gc_timing |-> DefaultGcTiming, num_of_calling |-> 0]

\* DDGSearchCache(): data is a mapping key -> value, metadata a list of
\* (key, create-time)
NewCache(max_size, max_age, gc_timing) ==
    [present |-> TRUE, data |-> <<>>, metadata |-> <<>>,
     max_size |-> max_size, max_age |-> max_age, gc_timing |-> gc_timing,
     num_of_calling |-> 0]

\* __len__, which is also the truth value of `self.cache`
CacheLen(c) == Cardinality(DOMAIN c.data)

CacheTruthy(c) == c.present /\ CacheLen(c) > 0

DictSet(d, key, value) ==
    [k \in DOMAIN d \cup {key} |-> IF k = key THEN value ELSE d[k]]

DictDel(d, key) == [k \in DOMAIN d \ {key} |-> d[k]]

RECURSIVE InsertByTime(_, _)
\* insert entry e after every entry whose time is <= e's (the sort is stable)
InsertByTime(sorted, e) ==
    IF sorted = <<>> THEN <<e>>
    ELSE IF sorted[Len(sorted)][2] <= e[2] THEN Append(sorted, e)
    ELSE Append(InsertByTime(SubSeq(sorted, 1, Len(sorted) - 1), e),
                sorted[Len(sorted)])

RECURSIVE SortByTime(_)
\* self.metadata.sort(key=lambda x: x[1])
SortByTime(m) ==
    IF m = <<>> THEN <<>>
    ELSE InsertByTime(SortByTime(SubSeq(m, 1, Len(m) - 1)), m[Len(m)])

RECURSIVE EvictBySize(_)
\* while len(self.data) > self.max_size: pop(0) and del
EvictBySize(c) ==
    IF c.exc # "" \/ CacheLen(c) <= c.max_size THEN c
    ELSE IF c.metadata = <<>> THEN [c EXCEPT !.exc = "IndexError"]
    ELSE LET key == c.metadata[1][1]
             rest == SubSeq(c.metadata, 2, Len(c.metadata))
         IN  IF key \notin DOMAIN c.data
             THEN [c EXCEPT !.metadata = rest, !.exc = "KeyError"]
             ELSE EvictBySize([c EXCEPT !.metadata = rest,
                                        !.data = DictDel(c.data, key)])

RECURSIVE EvictByAge(_, _)
\* while self.metadata and time.time() - self.metadata[-1][1] > self.max_age:
\* pop() and del
EvictByAge(c, t) ==
    IF c.exc # "" \/ c.metadata = <<>> THEN c
    ELSE LET last == c.metadata[Len(c.metadata)]
             rest == SubSeq(c.metadata, 1, Len(c.metadata) - 1)
         IN  IF ~(t - last[2] > c.max_age) THEN c
             ELSE IF last[1] \notin DOMAIN c.data
             THEN [c EXCEPT !.metadata = rest, !.exc = "KeyError"]
             ELSE EvictByAge([c EXCEPT !.metadata = rest,
                                       !.data = DictDel(c.data, last[1])], t)

\* remove_expired at time t; field exc names the exception it raises, if any
RemoveExpired(c, t) ==
    LET c0 == [present |-> c.present, data |-> c.data,
               metadata |-> SortByTime(c.metadata), max_size |-> c.max_size,
               max_age |-> c.max_age, gc_timing |-> c.gc_timing,
               num_of_calling |-> c.num_of_calling, exc |-> ""]
        c1 == IF c.max_size >= 0 THEN EvictBySize(c0) ELSE c0
    IN  IF c.max_age >= 0 THEN EvictByAge(c1, t) ELSE c1

\* variant: no operation ever runs the pass
GcDue_Never(c) == FALSE

\* if self.gc_timing <= 0 or self.num_of_calling % self.gc_timing == 0
GcDue(c) == c.gc_timing <= 0 \/ c.num_of_calling % c.gc_timing = 0

WithoutExc(c) == [k \in DOMAIN c \ {"exc"} |-> c[k]]

\* get(key, default) at time t: the cache afterwards, the value, the
\* exception, and whether remove_expired was called
CacheGetOr(c, key, default, t) ==
    LET c1 == [c EXCEPT !.num_of_calling = @ + 1]
        c2 == IF GcDue(c1) THEN RemoveExpired(c1, t)
              ELSE [k \in DOMAIN c1 \cup {"exc"} |->
                       IF k = "exc" THEN "" ELSE c1[k]]
    IN  [cache |-> WithoutExc(c2),
         exc |-> c2.exc,
         gc |-> GcDue(c1),
         value |-> IF key \in DOMAIN c2.data THEN c2.data[key] ELSE default]

\* variant: the lookup counts the call and is resumed later for the rest,
\* the eviction pass not yet run
CacheGet_Suspended(c, key, t) ==
    [cache |-> [c EXCEPT !.num_of_calling = @ + 1],
     exc |-> "",
     gc |-> FALSE,
     value |-> IF key \in DOMAIN c.data THEN c.data[key] ELSE None]

\* get(key, None) at time t
CacheGet(c, key, t) == CacheGetOr(c, key, None, t)

\* remove(key) at time t: del raises KeyError for a key data does not hold
CacheRemove(c, key, t) ==
    LET c1 == [c EXCEPT !.num_of_calling = @ + 1]
    IN  IF key \notin DOMAIN c.data
        THEN [cache |-> c1, exc |-> "KeyError", gc |-> FALSE]
        ELSE LET c2 == [c1 EXCEPT !.data = DictDel(c.data, key)]
                 c3 == IF GcDue(c2) THEN RemoveExpired(c2, t)
                       ELSE [k \in DOMAIN c2 \cup {"exc"} |->
                                IF k = "exc" THEN "" ELSE c2[k]]
             IN  [cache |-> WithoutExc(c3), exc |-> c3.exc, gc |-> GcDue(c2)]

\* clear()
CacheClear(c) ==
    [c EXCEPT !.num_of_calling = 0, !.data = <<>>, !.metadata = <<>>]

\* add(key, value) at time t
CacheAdd(c, key, value, t) ==
    LET c1 == [c EXCEPT !.num_of_calling = @ + 1,
                        !.data = DictSet(c.data, key, value),
                        !.metadata = Append(c.metadata, <<key, t>>)]
        c2 == IF GcDue(c1) THEN RemoveExpired(c1, t)
              ELSE [k \in DOMAIN c1 \cup {"exc"} |->
                       IF k = "exc" THEN "" ELSE c1[k]]
    IN  [cache |-> WithoutExc(c2), exc |-> c2.exc, gc |-> GcDue(c1)]

\* __contains__: key in self.data
CacheContains(c, key) == key \in DOMAIN c.data

----------------------------------------------------------------------------
(* DDGSearch.__init__ and the cache objects of a process *)

\* the reference of the object `DDGSearchCache()` that the def statement of
\* __init__ evaluates once, when the class body runs
DefaultCacheRef == 0

\* cache=None
NoneRef == -1

\* the module is imported: the default cache object exists, no DDGSearch yet
NoInstances ==
    [heap |-> [r \in {DefaultCacheRef} |->
                  NewCache(DefaultMaxSize, DefaultMaxAge, DefaultGcTiming)],
     clients |-> <<>>, nOps |-> 0, by |-> 0, op |-> "none"]

\* self.cache = cache, for the n-th DDGSearch: the default object when the
\* argument is omitted, None, or a DDGSearchCache() the caller built for it
CacheAttribute(arg, n) ==
    IF arg = "omitted" THEN DefaultCacheRef
    ELSE IF arg = "None" THEN NoneRef
    ELSE n

\* DDGSearch(...) is constructed
Construct ==
    /\ mode = "instances"
    /\ Len(instances.clients) < MaxInstances
    /\ \E arg \in {"omitted", "None", "own"} :
         LET n   == Len(instances.clients) + 1
             ref == CacheAttribute(arg, n)
         IN  instances' =
                [instances EXCEPT
                   !.clients = Append(@, [arg |-> arg, cache |-> ref]),
                   !.heap = IF ref \in DOMAIN @ \/ ref = NoneRef THEN @
                            ELSE [r \in DOMAIN @ \cup {ref} |->
                                    IF r = ref
                                    THEN NewCache(DefaultMaxSize, DefaultMaxAge,
                                                  DefaultGcTiming)
                                    ELSE @[r]],
                   !.by = n, !.op = "construct"]
    /\ UNCHANGED <<agentVars, searchVars, cacheHist, fetchRuns>>

\* the cache operations made through a DDGSearch: add, get, clear
ThroughClient(c, op, key) ==
    IF op = "add" THEN CacheAdd(c, key, Str(<<"page of ">> \o key), now).cache
    ELSE IF op = "get" THEN CacheGet(c, key, now).cache
    ELSE CacheClear(c)

\* client i operates on self.cache
ClientCacheOp(i) ==
    /\ mode = "instances"
    /\ i \in 1..Len(instances.clients)
    /\ instances.clients[i].cache # NoneRef
    /\ instances.nOps < MaxCacheOps
    /\ \E op \in {"add", "get", "clear"},
          key \in {<<"https://a", ".jp", "/1">>, <<"https://b", ".com", "/2">>} :
         instances' =
            [instances EXCEPT
               !.heap[instances.clients[i].cache] = ThroughClient(@, op, key),
               !.nOps = @ + 1, !.by = i, !.op = op]
    /\ UNCHANGED <<agentVars, searchVars, cacheHist, fetchRuns>>

----------------------------------------------------------------------------
(* DDGSearch._clean_html *)

\* tags removed by HTMLCleaning.remove_tags
CLEANED_TAGS == {"<script>", "<style>", "<header>", "<footer>", "<nav>",
                 "<aside>", "<form>"}

\* html is a sequence of elements; cleaning one of "none", "remove_tags"
CleanHtml(html, how) ==
    IF html = <<>> THEN html
    ELSE IF how = "remove_tags"
    THEN SelectSeq(html, LAMBDA el : el \notin CLEANED_TAGS)
    ELSE html

----------------------------------------------------------------------------
(* The model provider and the tools, as seen at their interface *)

\* names in self.tool_functions (the registry built from the Tool list)
tool_functions == {"search_with_contents"}

\* names the model may put in a function call
RequestedNames == {"search_with_contents", "get_weather"}

\* retry delays (seconds) the provider may suggest in a 429 payload
SuggestedDelays == {7, 12}

NoResponse == [text |-> "", function_calls |-> <<>>]

TextResponse == [text |-> "answer", function_calls |-> <<>>]

CallSeqs == UNION {[1..n -> RequestedNames] : n \in 1..MaxCalls}

CallsResponse(names) == [text |-> "", function_calls |-> names]

\* e.details["error"]["details"] of a 429 that carries a RetryInfo entry
DetailsWithDelay(d) ==
    << [type |-> "QuotaFailure"],
       [type |-> "RetryInfo", retryDelay |-> EncodeDuration(d)] >>

\* ... and of a 429 that carries none
DetailsWithoutDelay == << [type |-> "QuotaFailure"] >>

\* a provider error: the exception class, e.details["error"]["code"] and
\* e.details["error"]["details"]; `suggested` is the delay the provider meant
\* (-1: none), which the agent can learn only by parsing `details`
RateLimitError(details, suggested) ==
    [exc |-> "ClientError", code |-> 429, details |-> details,
     suggested |-> suggested]

RateLimitErrors ==
    {RateLimitError(DetailsWithDelay(d), d) : d \in SuggestedDelays}
        \cup {RateLimitError(DetailsWithoutDelay, -1)}

OtherClientError ==
    [exc |-> "ClientError", code |-> 400, details |-> <<>>, suggested |-> -1]

ProviderServerError ==
    [exc |-> "ServerError", code |-> 503, details |-> <<>>, suggested |-> -1]

UnexpectedError ==
    [exc |-> "Exception", code |-> 0, details |-> <<>>, suggested |-> -1]

ProviderErrors ==
    RateLimitErrors \cup {OtherClientError, ProviderServerError, UnexpectedError}

\* what a tool's coroutine may do: return a result or raise
ToolOutcomes == {"ok", "ValueError"}

----------------------------------------------------------------------------
(* GeminiAgent._call_tool_function_async *)

\* variant: the dispatcher indexes the registry without looking the name up first
CallToolFunctionAsync_NoLookup(name, outcome) ==
    IF name \notin tool_functions
    THEN [name |-> name, key |-> "raise", value |-> <<"KeyError">>]
    ELSE IF outcome = "ok"
    THEN [name |-> name, key |-> "result", value |-> <<"result of ", name>>]
    ELSE [name |-> name, key |-> "error",
          value |-> <<"Error calling tool '", name, "' asynchronously: ",
                      outcome, " ", "message">>]

\* The part returned for function call `name` when the tool's coroutine
\* behaves as `outcome`. key "raise" would be an exception leaving the
\* dispatcher; the code returns a part on every path.
CallToolFunctionAsync(name, outcome) ==
    IF name \notin tool_functions
    THEN [name |-> name, key |-> "error",
          value |-> <<"Error: Tool '", name, "' is not supported.">>]
    ELSE IF outcome = "ok"
    THEN [name |-> name, key |-> "result", value |-> <<"result of ", name>>]
    ELSE [name |-> name, key |-> "error",
          value |-> <<"Error calling tool '", name, "' asynchronously: ",
                      outcome, " ", "message">>]

----------------------------------------------------------------------------
(* GeminiAgent.ainvoke *)

cfgVars == <<self_retries, self_retry_delay, output_format>>

\* the value returned after the retry loop
FailureSentinel == IF output_format = "message"
                   THEN [kind |-> "str", text |-> ""]
                   ELSE [kind |-> "None"]

\* the value returned for a response without function calls
FinalValue(r) == IF output_format = "message"
                 THEN [kind |-> "str", text |-> r.text]
                 ELSE [kind |-> "response", response |-> r]

\* seconds slept before retrying after a ServerError
ServerErrorSleep == 30

\* the loop guard at the top of `while True`
BudgetExhausted == self_retries > 0 /\ retries > self_retries

\* variant: a ClientError other than 429 is retried like a ServerError
ErrorClass_RetryClientErrors(e) ==
    IF e.exc = "ClientError"
    THEN IF e.code = 429 THEN "rate_limit" ELSE "server"
    ELSE IF e.exc = "ServerError" THEN "server"
    ELSE "fatal"

\* which except clause handles e, and what it does:
\* "rate_limit" (sleep, retry), "server" (sleep 30, retry), "fatal" (break)
ErrorClass(e) ==
    IF e.exc = "ClientError"
    THEN IF e.code = 429 THEN "rate_limit" ELSE "fatal"
    ELSE IF e.exc = "ServerError" THEN "server"
    ELSE "fatal"

HasTruthyRetryDelay(d) == "retryDelay" \in DOMAIN d /\ d.retryDelay # <<>>

\* the list comprehension of the 429 branch: the parsed retryDelay of every
\* detail entry that carries one
RetryDelayList(details) ==
    LET carrying == SelectSeq(details, HasTruthyRetryDelay)
    IN  [i \in 1..Len(carrying) |->
            ParseFloat(StrRemove(carrying[i].retryDelay, "s"))]

\* variant: the configured retry_delay is ignored
RateLimitSleep_IgnoresConfig(e) ==
    LET delays == RetryDelayList(e.details)
    IN  IF delays = <<>>
        THEN [ok |-> FALSE, exc |-> "IndexError"]
        ELSE [ok |-> TRUE, sec |-> delays[1]]

\* sleep_sec of the 429 branch, or the exception its computation raises
RateLimitSleep(e) ==
    IF self_retry_delay > 0
    THEN [ok |-> TRUE, sec |-> self_retry_delay]
    ELSE LET delays == RetryDelayList(e.details)
         IN  IF \E i \in 1..Len(delays) : delays[i] < 0
             THEN [ok |-> FALSE, exc |-> "ValueError"]
             ELSE IF delays = <<>>
             THEN [ok |-> FALSE, exc |-> "IndexError"]
             ELSE [ok |-> TRUE, sec |-> delays[1]]

\* variant: the newest part is put in front of the parts collected so far
Collect_Prepend(parts, part) == <<part>> \o parts

\* tool_responses.append(tool_response)
Collect(parts, part) == Append(parts, part)

\* variant: the for loop leaves after its first iteration
AfterDispatchPc_FirstOnly(idx, calls) == "followup"

\* where the loop goes after dispatching call number idx of `calls`
AfterDispatchPc(idx, calls) == IF idx = Len(calls) THEN "followup" ELSE "dispatch"

\* types.GenerateContentConfig() as __init__ builds it when no default
\* thinking budget is given
DefaultConfig == [thinking_config |-> None]

\* chat.send_message returned: the session records the content sent and the
\* model's content; a request that raises records nothing
Recorded(history, role) == history \o <<role, "model">>

\* the state of a fresh agent on which ainvoke(message) has not been called:
\* no files, no thinking budget
NoTurn == [failed |-> FALSE, nRequests |-> 0]

\* a fresh agent: the chat session is empty and no call has been made
SessionFresh ==
    /\ chat_history = <<>>
    /\ self_config = DefaultConfig
    /\ config = Unset
    /\ uploads = <<>>
    /\ attached_files = <<>>
    /\ turn = 1
    /\ prevTurn = NoTurn

\* ainvoke(message): no files, no thinking budget
SessionStart ==
    /\ SessionFresh
    /\ thinking_budget = None
    /\ files = <<>>

\* thinking_budget=n
Tokens(n) == [t |-> "int", v |-> n]

\* variant: the overrides of the call are written into self._config
ConfigForCall_InPlace(default, budget) ==
    LET c == IF budget # None
             THEN [default EXCEPT !.thinking_config = budget]
             ELSE default
    IN  [self |-> c, local |-> c]

\* config = self._config.model_copy(), then the overrides of the call
ConfigForCall(default, budget) ==
    [self |-> default,
     local |-> IF budget # None
               THEN [default EXCEPT !.thinking_config = budget]
               ELSE default]

\* variant: the counter of the call before is kept
InitialRetries_Carried(r) == r

\* retries = 0
InitialRetries(r) == 0

\* variant: only the response to the user's message is inspected for calls
WantsTools_InitialOnly(r) == r.function_calls # <<>> /\ pc = "loop"

\* while response.function_calls:
WantsTools(r) == r.function_calls # <<>>

\* variant: the parts of the round before are kept
FreshToolResponses_Kept(parts) == parts

\* tool_responses = [] at the top of a tool-call round
FreshToolResponses(parts) == <<>>

\* the try body after a request returned response r
OnResponse(r) ==
    /\ response' = r
    /\ lastOutcome' = [kind |-> "response", calls |-> Len(r.function_calls)]
    /\ onlyRateLimited' = FALSE
    /\ UNCHANGED <<hadError, sleep_sec, raised>>
    /\ IF WantsTools(r)
       THEN /\ pc' = "dispatch"
            /\ fcIdx' = 1
            /\ tool_responses' = FreshToolResponses(tool_responses)
            /\ toolOutcomes' = <<>>
            /\ dispatchCount' = [i \in 1..Len(r.function_calls) |-> 0]
            /\ nToolResponses' = nToolResponses + 1
            /\ nCallsRequested' = nCallsRequested + Len(r.function_calls)
            /\ UNCHANGED <<retries, retval>>
       ELSE /\ pc' = "done"
            /\ retval' = FinalValue(r)
            /\ retries' = retries + 1
            /\ UNCHANGED <<fcIdx, tool_responses, toolOutcomes, dispatchCount,
                           nToolResponses, nCallsRequested>>

\* the except clauses (and the finally clause) after a request raised e
OnError(e) ==
    /\ lastOutcome' = [kind |-> "error", class |-> ErrorClass(e), exc |-> e.exc,
                       code |-> e.code, suggested |-> e.suggested]
    /\ hadError' = TRUE
    /\ onlyRateLimited' = (onlyRateLimited /\ e.exc = "ClientError" /\ e.code = 429)
    /\ UNCHANGED <<response, fcIdx, tool_responses, toolOutcomes, dispatchCount,
                   nToolResponses, nCallsRequested>>
    /\ IF ErrorClass(e) = "rate_limit"
       THEN LET s == RateLimitSleep(e)
            IN  IF s.ok
                THEN /\ sleep_sec' = s.sec
                     /\ pc' = "sleep"
                     /\ UNCHANGED <<retries, retval, raised>>
                ELSE \* raised inside the except clause: finally, then propagates
                     /\ raised' = s.exc
                     /\ pc' = "raised"
                     /\ retries' = retries + 1
                     /\ UNCHANGED <<sleep_sec, retval>>
       ELSE IF ErrorClass(e) = "server"
       THEN /\ sleep_sec' = ServerErrorSleep
            /\ pc' = "sleep"
            /\ UNCHANGED <<retries, retval, raised>>
       ELSE \* break, finally, then the return after the loop
            /\ pc' = "done"
            /\ retries' = retries + 1
            /\ retval' = FailureSentinel
            /\ UNCHANGED <<sleep_sec, raised>>

\* pathlib.Path(...)
PathOf(fragments) == [t |-> "Path", v |-> fragments]

\* not (isinstance(file, Path) or not (file.startswith("http://") or
\* file.startswith("https://")))
IsRemote(file) ==
    /\ file.t = "str"
    /\ file.v # <<>>
    /\ file.v[1] \in {"http://", "https://"}

\* the suffix table of _guess_filetype, tried from top to bottom
SuffixTable ==
    <<[suffix |-> ".pdf",  mime |-> "application/pdf"],
      [suffix |-> ".xml",  mime |-> "application/xml"],
      [suffix |-> ".html", mime |-> "text/html"],
      [suffix |-> ".htm",  mime |-> "text/html"],
      [suffix |-> ".md",   mime |-> "text/markdown"],
      [suffix |-> ".png",  mime |-> "image/png"],
      [suffix |-> ".jpeg", mime |-> "image/jpeg"],
      [suffix |-> ".jpg",  mime |-> "image/jpeg"],
      [suffix |-> ".webp", mime |-> "image/webp"],
      [suffix |-> ".heic", mime |-> "image/heic"],
      [suffix |-> ".heif", mime |-> "image/heif"]>>

\* str.lower() of one text fragment: the fragments with upper-case letters
\* that the urls explored are made of
LowerFragment(f) ==
    IF f = ".PDF" THEN ".pdf" ELSE f

\* str(response.url).lower()
Lower(url) == [i \in DOMAIN url |-> LowerFragment(url[i])]

\* the mime type of the first row whose suffix ends the url, else text/plain
MimeBySuffix(url) ==
    LET last == url[Len(url)]
        rows == SelectSeq(SuffixTable, LAMBDA row : row.suffix = last)
    IN  IF rows = <<>> THEN "text/plain" ELSE rows[1].mime

\* _guess_filetype(response): with a declared Content-Type the method
\* subscripts the bound method `response.headers.get`, which raises
GuessFiletype(declared, url) ==
    IF declared # ""
    THEN [ok |-> FALSE, exc |-> "TypeError", mime |-> ""]
    ELSE [ok |-> TRUE, exc |-> "", mime |-> MimeBySuffix(Lower(url))]

\* a coroutine upload_file(file, client) that has not run yet
NewUpload ==
    [stage |-> "start", gets |-> 0, puts |-> 0, mime |-> "", exc |-> "",
     handle |-> None, res |-> "none", declared |-> ""]

\* [upload_file(file, client) for file in files]
NewUploads(inputs) == [i \in 1..Len(inputs) |-> NewUpload]

\* what files.upload returns for an input
FileHandle(file, mime) == [t |-> "File", source |-> file, mime_type |-> mime]

\* variant: an input whose download or upload failed is tried once more
UploadRaises_TriedAgain(task, exc) ==
    IF task.exc = ""
    THEN [task EXCEPT !.stage = "start", !.exc = exc]
    ELSE [task EXCEPT !.stage = "failed", !.exc = exc]

\* an exception leaves upload_file: the coroutine is over
UploadRaises(task, exc) == [task EXCEPT !.stage = "failed", !.exc = exc]

\* await self.client.aio.files.upload(...) of one coroutine
FilesUpload(task, file, ok) ==
    LET called == [task EXCEPT !.puts = @ + 1]
    IN  IF ok
        THEN [called EXCEPT !.stage = "done",
                            !.handle = FileHandle(file, task.mime)]
        ELSE UploadRaises(called, "UploadError")

\* await client.get(file); res.raise_for_status(); self._guess_filetype(res)
Download(task, file, outcome, declared) ==
    LET called == [task EXCEPT !.gets = @ + 1, !.res = outcome,
                                   !.declared = IF outcome = "ok" THEN declared
                                                ELSE ""]
        guess  == GuessFiletype(declared, file.v)
    IN  IF outcome = "ConnectError" THEN UploadRaises(called, "ConnectError")
        ELSE IF outcome = "status" THEN UploadRaises(called, "HTTPStatusError")
        ELSE IF ~guess.ok THEN UploadRaises(called, guess.exc)
        ELSE [called EXCEPT !.stage = "fetched", !.mime = guess.mime]

\* Content-Type headers a download may carry; "" is none
DeclaredTypes == {"", "application/pdf"}

\* the steps coroutine i of the gather can take next
UploadSteps(i) ==
    IF uploads[i].stage = "start" /\ IsRemote(files[i])
    THEN {Download(uploads[i], files[i], outcome, declared) :
             outcome \in {"ok", "status", "ConnectError"},
             declared \in DeclaredTypes}
    ELSE {FilesUpload(uploads[i], files[i], ok) : ok \in BOOLEAN}

\* where ainvoke goes after its preamble: asyncio.gather of no coroutines
\* returns [] at once
AfterBeginPc(inputs) == IF inputs = <<>> THEN "loop" ELSE "upload"

\* one coroutine of `asyncio.gather(*[upload_file(file, client) ...])` runs
\* to its next await or to its end. The first exception leaves gather and
\* ainvoke at once; the other coroutines are not cancelled
UploadFile(i) ==
    /\ pc \in {"upload", "raised"}
    /\ i \in 1..Len(uploads)
    /\ uploads[i].stage \in {"start", "fetched"}
    /\ \E task \in UploadSteps(i) :
         /\ uploads' = [uploads EXCEPT ![i] = task]
         /\ IF task.stage = "failed" /\ pc = "upload"
            THEN pc' = "raised" /\ raised' = task.exc
            ELSE UNCHANGED <<pc, raised>>
    /\ UNCHANGED <<cfgVars, retries, response, fcIdx, tool_responses,
                   sleep_sec, retval, nRequests, nFollowups, nToolResponses,
                   nCallsRequested, nDispatched, nToolInvocations,
                   dispatchCount, toolOutcomes, nPartsSent, lastOutcome,
                   lastEvent, lastSleep, hadError, onlyRateLimited>>
    /\ UNCHANGED <<chat_history, self_config, thinking_budget, files, config,
                   attached_files, turn, prevTurn>>
    /\ UNCHANGED <<searchVars, cacheHist, fetchRuns, instances>>

\* every coroutine has returned: attached_files = the handles, in the order
\* of `files`
Gathered ==
    /\ pc = "upload"
    /\ \A i \in 1..Len(uploads) : uploads[i].stage = "done"
    /\ attached_files' = [i \in 1..Len(uploads) |-> uploads[i].handle]
    /\ pc' = "loop"
    /\ UNCHANGED <<cfgVars, retries, response, fcIdx, tool_responses,
                   sleep_sec, retval, raised, nRequests, nFollowups,
                   nToolResponses, nCallsRequested, nDispatched,
                   nToolInvocations, dispatchCount, toolOutcomes, nPartsSent,
                   lastOutcome, lastEvent, lastSleep, hadError,
                   onlyRateLimited>>
    /\ UNCHANGED <<chat_history, self_config, thinking_budget, files, config,
                   uploads, turn, prevTurn>>
    /\ UNCHANGED <<searchVars, cacheHist, fetchRuns, instances>>

\* responses the provider may give when k tool-call rounds have been answered
ProviderResponses(k) ==
    {TextResponse} \cup
        (IF k < MaxRounds THEN {CallsResponse(n) : n \in CallSeqs} ELSE {})

\* ainvoke is called: retries = 0, the call's config, the upload coroutines
Begin ==
    /\ pc = "idle"
    /\ pc' = AfterBeginPc(files)
    /\ retries' = InitialRetries(retries)
    /\ UNCHANGED <<cfgVars, response, fcIdx, tool_responses, sleep_sec, retval,
                   raised, nRequests, nFollowups, nToolResponses,
                   nCallsRequested, nDispatched, nToolInvocations,
                   dispatchCount, toolOutcomes, nPartsSent, lastOutcome,
                   lastEvent, lastSleep, hadError, onlyRateLimited>>
    /\ config' = ConfigForCall(self_config, thinking_budget).local
    /\ self_config' = ConfigForCall(self_config, thinking_budget).self
    /\ uploads' = NewUploads(files)
    /\ UNCHANGED <<chat_history, thinking_budget, files, attached_files,
                   turn, prevTurn>>
    /\ UNCHANGED <<searchVars, cacheHist, fetchRuns, instances>>

\* the loop guard holds: break, then return the failure sentinel
GiveUp ==
    /\ pc = "loop"
    /\ BudgetExhausted
    /\ pc' = "done"
    /\ retval' = FailureSentinel
    /\ UNCHANGED <<cfgVars, retries, response, fcIdx, tool_responses, sleep_sec,
                   raised, nRequests, nFollowups, nToolResponses,
                   nCallsRequested, nDispatched, nToolInvocations,
                   dispatchCount, toolOutcomes, nPartsSent, lastOutcome,
                   lastEvent, lastSleep, hadError, onlyRateLimited>>
    /\ UNCHANGED sessionVars
    /\ UNCHANGED <<searchVars, cacheHist, fetchRuns, instances>>

\* await self.chat.send_message(message=attached_files + [message], ...)
SendMessage ==
    /\ pc = "loop"
    /\ ~BudgetExhausted
    /\ nRequests < MaxRequests
    /\ nRequests' = nRequests + 1
    /\ lastEvent' = "request"
    /\ \/ /\ \E r \in ProviderResponses(nFollowups) : OnResponse(r)
          /\ chat_history' = Recorded(chat_history, "user")
       \/ /\ \E e \in ProviderErrors : OnError(e)
          /\ UNCHANGED chat_history
    /\ UNCHANGED <<cfgVars, nFollowups, nDispatched, nToolInvocations,
                   nPartsSent, lastSleep>>
    /\ UNCHANGED <<self_config, thinking_budget, files, config, uploads,
                   attached_files, turn, prevTurn>>
    /\ UNCHANGED <<searchVars, cacheHist, fetchRuns, instances>>

\* one iteration of `for function_call in response.function_calls`
DispatchTool ==
    /\ pc = "dispatch"
    /\ \E outcome \in ToolOutcomes :
         LET name == response.function_calls[fcIdx]
             part == CallToolFunctionAsync(name, outcome)
         IN  /\ (name \notin tool_functions) => outcome = "ok"
             /\ toolOutcomes' = Append(toolOutcomes, outcome)
             /\ IF part.key = "raise"
                THEN \* caught by `except Exception` of the turn: break
                     /\ pc' = "done"
                     /\ retries' = retries + 1
                     /\ retval' = FailureSentinel
                     /\ UNCHANGED tool_responses
                ELSE /\ pc' = AfterDispatchPc(fcIdx, response.function_calls)
                     /\ tool_responses' = Collect(tool_responses, part)
                     /\ UNCHANGED <<retries, retval>>
    /\ nToolInvocations' = nToolInvocations
          + (IF response.function_calls[fcIdx] \in tool_functions THEN 1 ELSE 0)
    /\ nDispatched' = nDispatched + 1
    /\ dispatchCount' = [dispatchCount EXCEPT ![fcIdx] = @ + 1]
    /\ fcIdx' = fcIdx + 1
    /\ lastEvent' = "tool"
    /\ UNCHANGED <<cfgVars, response, sleep_sec, raised, nRequests, nFollowups,
                   nToolResponses, nCallsRequested, nPartsSent, lastOutcome,
                   lastSleep, hadError, onlyRateLimited>>
    /\ UNCHANGED sessionVars
    /\ UNCHANGED <<searchVars, cacheHist, fetchRuns, instances>>

\* await self.chat.send_message(tool_responses, config)
SendFollowup ==
    /\ pc = "followup"
    /\ nRequests' = nRequests + 1
    /\ nFollowups' = nFollowups + 1
    /\ nPartsSent' = nPartsSent + Len(tool_responses)
    /\ lastEvent' = "request"
    /\ \/ /\ \E r \in ProviderResponses(nFollowups + 1) : OnResponse(r)
          /\ chat_history' = Recorded(chat_history, "tool")
       \/ /\ \E e \in ProviderErrors : OnError(e)
          /\ UNCHANGED chat_history
    /\ UNCHANGED <<cfgVars, nDispatched, nToolInvocations, lastSleep>>
    /\ UNCHANGED <<self_config, thinking_budget, files, config, uploads,
                   attached_files, turn, prevTurn>>
    /\ UNCHANGED <<searchVars, cacheHist, fetchRuns, instances>>

\* await asyncio.sleep(sleep_sec), then the finally clause and the next iteration
Sleep ==
    /\ pc = "sleep"
    /\ lastSleep' = sleep_sec
    /\ lastEvent' = "sleep"
    /\ retries' = retries + 1
    /\ pc' = "loop"
    /\ UNCHANGED <<cfgVars, response, fcIdx, tool_responses, sleep_sec, retval,
                   raised, nRequests, nFollowups, nToolResponses,
                   nCallsRequested, nDispatched, nToolInvocations,
                   dispatchCount, toolOutcomes, nPartsSent, lastOutcome,
                   hadError, onlyRateLimited>>
    /\ UNCHANGED sessionVars
    /\ UNCHANGED <<searchVars, cacheHist, fetchRuns, instances>>

\* the call ended in failure: it returned the failure sentinel or raised
TurnFailed == pc = "raised" \/ (pc = "done" /\ retval = FailureSentinel)

\* ainvoke has ended in failure, and the caller calls it again on the same
\* agent: the locals of the finished call are gone, the agent's attributes
\* and its chat session stay
NewTurn ==
    /\ TurnFailed
    /\ turn < MaxTurns
    /\ turn' = turn + 1
    /\ prevTurn' = [failed |-> TurnFailed, nRequests |-> nRequests]
    /\ pc' = "idle"
    /\ response' = NoResponse
    /\ fcIdx' = 0
    /\ tool_responses' = <<>>
    /\ sleep_sec' = 0
    /\ retval' = [kind |-> "unset"]
    /\ raised' = ""
    /\ dispatchCount' = <<>>
    /\ toolOutcomes' = <<>>
    /\ lastOutcome' = [kind |-> "none"]
    /\ lastEvent' = "none"
    /\ lastSleep' = -1
    /\ hadError' = FALSE
    /\ onlyRateLimited' = TRUE
    /\ config' = Unset
    /\ uploads' = <<>>
    /\ attached_files' = <<>>
    /\ UNCHANGED <<cfgVars, retries, nRequests, nFollowups, nToolResponses,
                   nCallsRequested, nDispatched, nToolInvocations, nPartsSent,
                   chat_history, self_config, thinking_budget, files>>
    /\ UNCHANGED <<searchVars, cacheHist, fetchRuns, instances>>

\* retry budgets explored: <= 0 is unbounded
RetryBudgets == -1..MaxBudget

\* configured fixed delays explored: <= 0 is "use the provider's suggestion"
RetryDelays == {-1, 3}

AgentStart ==
    /\ self_retries \in RetryBudgets
    /\ self_retry_delay \in RetryDelays
    /\ output_format \in {"message", "raw"}
    /\ pc = "idle"
    /\ retries = 0
    /\ response = NoResponse
    /\ fcIdx = 0
    /\ tool_responses = <<>>
    /\ sleep_sec = 0
    /\ retval = [kind |-> "unset"]
    /\ raised = ""
    /\ nRequests = 0
    /\ nFollowups = 0
    /\ nToolResponses = 0
    /\ nCallsRequested = 0
    /\ nDispatched = 0
    /\ nToolInvocations = 0
    /\ dispatchCount = <<>>
    /\ toolOutcomes = <<>>
    /\ nPartsSent = 0
    /\ lastOutcome = [kind |-> "none"]
    /\ lastEvent = "none"
    /\ lastSleep = -1
    /\ hadError = FALSE
    /\ onlyRateLimited = TRUE
    /\ SessionFresh


----------------------------------------------------------------------------
(* The search provider, the HTTP transport and the caller's filter *)

UrlJp == <<"https://a", ".jp", "/1">>

UrlCom == <<"https://b", ".com", "/2">>

Urls == {UrlJp, UrlCom}

\* result records of the provider carry href
ProviderRecords == {[href |-> u] : u \in Urls}

\* ddgs.text(...) returns a list, possibly empty
ProviderLists == UNION {[1..n -> ProviderRecords] : n \in 0..MaxResults}

\* ... or raises RatelimitException or another DDGSException
ProviderFailures == {"RatelimitException", "DDGSException"}

\* the body served for url
Page(url) == <<"<script>", "<p>">> \o url

\* client.get(url): a 2xx response with a body, a non-2xx status
\* (raise_for_status raises HTTPStatusError) or a transport error
TransportOutcomes == {"page", "script_only", "blank", "status", "ConnectError"}

\* the answers explored for the fetches of a search that has a cache; a
\* search without a cache and a fetch called on its own see every answer
SearchTransportOutcomes == {"page", "status", "ConnectError"}

Body(outcome, url) ==
    IF outcome = "page" THEN Page(url)
    ELSE IF outcome = "script_only" THEN <<"<script>">>
    ELSE <<>>

\* result["contents"] = value
SetContents(results, i, value) ==
    [results EXCEPT ![i] = DictSet(results[i], "contents", value)]

\* first n items of list l: l[:n]
Take(l, n) == SubSeq(l, 1, IF Len(l) < n THEN Len(l) ELSE n)

\* the filter of tests/test_ddgsearch.py: mark the results whose href
\* contains ".jp" with a placeholder, keep all, return the first `limit`
FilterMark(results, limit) ==
    Take([i \in 1..Len(results) |->
             IF Contains(results[i].href, ".jp")
             THEN DictSet(results[i], "contents", [t |-> "bool", v |-> TRUE])
             ELSE results[i]],
         limit)

\* a filter that keeps only the results whose href contains ".jp", marks
\* them with a placeholder and returns the first `limit`
FilterKeep(results, limit) ==
    Take([i \in 1..Len(SelectSeq(results, LAMBDA r : Contains(r.href, ".jp"))) |->
             DictSet(SelectSeq(results, LAMBDA r : Contains(r.href, ".jp"))[i],
                     "contents", [t |-> "bool", v |-> TRUE])],
         limit)

NoFilter == [kind |-> "None", limit |-> 0]

FilterFuncs == {NoFilter, [kind |-> "mark", limit |-> 2],
                [kind |-> "keep", limit |-> 1]}

\* a search that does not call its filter
ApplyFilter_Identity(f, results) == results

\* self.filter_func(search_results)
ApplyFilter(f, results) ==
    IF f.kind = "mark" THEN FilterMark(results, f.limit)
    ELSE FilterKeep(results, f.limit)

----------------------------------------------------------------------------
(* DDGSearch._get_website_contents(_async) *)

NoUrlError ==
    Str(<<"Failed to get website contents, reason: ", "No url was provided.">>)

EmptyContentsError(url) ==
    Str(<<"Failed to get website contents, reason: ",
          "Empty contents was provided from ">> \o url
        \o <<" after ">> \o Digits(ddg_retries) \o <<" retries.">>)

FetchExceptionError(class) ==
    Str(<<"Failed to get website contents, reason: ", class, " ", "message">>)

\* variant: whatever the loop left in website_contents is returned
FetchReturn_Raw(url, website_contents) == website_contents

\* the return after the retry loop (or after the cache lookup)
FetchReturn(url, website_contents) ==
    IF Truthy(website_contents) THEN website_contents
    ELSE EmptyContentsError(url)

\* one call of _get_website_contents(_async) for result i: its locals, and
\* (observation only) the GETs it issued, whether it returned while a call
\* for an earlier result was still running, and the value the cache held
\* for url when the call was made
NewTask(i, url) ==
    [i |-> i, url |-> url, pc |-> "new", attempt |-> 0,
     website_contents |-> None, ret |-> Unset, gets |-> 0, overtook |-> FALSE,
     held |-> Unset, last |-> "none"]

\* self.cache.data.get(url), Unset when absent or when there is no cache
HeldValue(url) ==
    IF cache.present /\ url \in DOMAIN cache.data THEN cache.data[url]
    ELSE Unset

\* a call for an earlier result has not returned yet
EarlierRunning(k) == \E j \in 1..(k - 1) : tasks[j].pc # "done"

AllDone == \A k \in 1..Len(tasks) : tasks[k].pc = "done"

\* the sync search runs the fetches one after the other; the async search
\* starts them in order and lets them interleave at their awaits
Runnable(k) ==
    /\ k \in 1..Len(tasks)
    /\ tasks[k].pc # "done"
    /\ \A j \in 1..(k - 1) :
          IF mode = "sync" THEN tasks[j].pc = "done" ELSE tasks[j].pc # "new"

\* task k returns ret: the sync search stores it at once
TaskReturns(k, wc, ret, got, outcome) ==
    /\ tasks' = [tasks EXCEPT ![k] = [@ EXCEPT !.pc = "done",
                                               !.website_contents = wc,
                                               !.ret = ret,
                                               !.gets = @ + got,
                                               !.last = outcome,
                                               !.overtook = EarlierRunning(k),
                                               !.held = IF tasks[k].pc = "new"
                                                        THEN HeldValue(tasks[k].url)
                                                        ELSE @]]
    /\ search_results' = IF mode = "sync"
                         THEN SetContents(search_results, tasks[k].i, ret)
                         ELSE search_results

\* a fetcher that takes every url for a url
NoUrl_Never(url) == FALSE

\* if not url:
NoUrl(url) == url = <<>>

\* entry of _get_website_contents(_async) up to the first GET
FetchStart(k) ==
    /\ spc = "fetch"
    /\ Runnable(k)
    /\ tasks[k].pc = "new"
    /\ nFetchCalls' = nFetchCalls + 1
    /\ LET url == tasks[k].url
       IN  IF NoUrl(url)
           THEN /\ TaskReturns(k, None, NoUrlError, 0, "none")
                /\ UNCHANGED <<cache, spc, sraised>>
           ELSE IF CacheTruthy(cache)
           THEN LET g == CacheGet(cache, url, now)
                IN  /\ cache' = g.cache
                    /\ IF g.exc # ""
                       THEN /\ sraised' = g.exc
                            /\ spc' = "raised"
                            /\ tasks' = [tasks EXCEPT ![k] =
                                           [@ EXCEPT !.pc = "raised",
                                                     !.held = HeldValue(url)]]
                            /\ UNCHANGED search_results
                       ELSE /\ TaskReturns(k, g.value, FetchReturn(url, g.value), 0, "none")
                            /\ UNCHANGED <<spc, sraised>>
           ELSE IF ddg_retries <= 0
           THEN /\ TaskReturns(k, None, FetchReturn(url, None), 0, "none")
                /\ UNCHANGED <<cache, spc, sraised>>
           ELSE /\ tasks' = [tasks EXCEPT ![k] =
                               [@ EXCEPT !.pc = "get", !.held = HeldValue(url)]]
                /\ UNCHANGED <<cache, spc, sraised, search_results>>
    /\ UNCHANGED <<searchCfgVars, attempt, sretval, provHist, providerResults,
                   filterOut, searchSleeps, nGets, nFetchSleeps>>
    /\ UNCHANGED <<agentVars, cacheHist, fetchRuns, instances>>

\* a loop that runs one iteration more than configured
MoreIterations_OneExtra(n) == n <= ddg_retries

\* for _ in range(self.retries): is there an iteration after n of them?
MoreIterations(n) == n < ddg_retries

\* variant: every failed attempt is retried
AttemptClass_RetryAll(outcome, cleaned) ==
    IF outcome \in {"status", "ConnectError"} THEN "retry"
    ELSE IF ~Truthy(cleaned) THEN "retry"
    ELSE "ok"

\* what one pass of the fetch loop does with the answer to its GET:
\* `except httpx.HTTPStatusError` and `if not website_contents` sleep and
\* continue ("retry"), `except Exception` returns ("abort"), the else clause
\* breaks ("ok")
AttemptClass(outcome, cleaned) ==
    IF outcome = "status" THEN "retry"
    ELSE IF outcome = "ConnectError" THEN "abort"
    ELSE IF ~Truthy(cleaned) THEN "retry"
    ELSE "ok"

\* a failed iteration of the fetch loop has slept: the next iteration, or
\* the return after the loop
FetchRetry(k, wc, outcome) ==
    IF MoreIterations(tasks[k].attempt + 1)
    THEN /\ tasks' = [tasks EXCEPT ![k] = [@ EXCEPT !.attempt = @ + 1,
                                                   !.gets = @ + 1,
                                                   !.last = outcome,
                                                   !.website_contents = wc]]
         /\ UNCHANGED search_results
    ELSE /\ tasks' = [tasks EXCEPT ![k] =
                        [@ EXCEPT !.pc = "done", !.attempt = @ + 1,
                                  !.gets = @ + 1,
                                  !.last = outcome,
                                  !.website_contents = wc,
                                  !.overtook = EarlierRunning(k),
                                  !.ret = FetchReturn(tasks[k].url, wc)]]
         /\ search_results' =
                IF mode = "sync"
                THEN SetContents(search_results, tasks[k].i,
                                 FetchReturn(tasks[k].url, wc))
                ELSE search_results

\* one iteration of the fetch loop: GET, raise_for_status, clean, and the
\* sleep of an iteration that failed
FetchGet(k) ==
    /\ spc = "fetch"
    /\ Runnable(k)
    /\ tasks[k].pc = "get"
    /\ nGets' = nGets + 1
    /\ \E outcome \in (IF mode = "direct" \/ ~cache.present
                        THEN TransportOutcomes
                        ELSE SearchTransportOutcomes) :
         LET url == tasks[k].url
             cleaned == Str(CleanHtml(Body(outcome, url), cleaning))
             class == AttemptClass(outcome, cleaned)
             \* website_contents is assigned only when the GET gave a body
             wc == IF outcome \in {"status", "ConnectError"}
                   THEN tasks[k].website_contents ELSE cleaned
         IN  IF class = "retry"
             THEN /\ FetchRetry(k, wc, outcome)
                  /\ nFetchSleeps' = nFetchSleeps + 1
                  /\ UNCHANGED <<cache, spc, sraised>>
             ELSE IF class = "abort"
             THEN /\ TaskReturns(k, wc, FetchExceptionError(outcome), 1, outcome)
                  /\ UNCHANGED <<cache, spc, sraised, nFetchSleeps>>
             ELSE IF CacheTruthy(cache)
             THEN LET a == CacheAdd(cache, url, cleaned, now)
                  IN  /\ cache' = a.cache
                      /\ UNCHANGED nFetchSleeps
                      /\ IF a.exc # ""
                         THEN /\ sraised' = a.exc
                              /\ spc' = "raised"
                              /\ tasks' = [tasks EXCEPT ![k] =
                                             [@ EXCEPT !.pc = "raised",
                                                       !.last = outcome,
                                                       !.gets = @ + 1]]
                              /\ UNCHANGED search_results
                         ELSE /\ TaskReturns(k, cleaned, FetchReturn(url, cleaned),
                                             1, outcome)
                              /\ UNCHANGED <<spc, sraised>>
             ELSE /\ TaskReturns(k, cleaned, FetchReturn(url, cleaned), 1, outcome)
                  /\ UNCHANGED <<cache, spc, sraised, nFetchSleeps>>
    /\ UNCHANGED <<searchCfgVars, attempt, sretval, provHist, providerResults,
                   filterOut, searchSleeps, nFetchCalls>>
    /\ UNCHANGED <<agentVars, cacheHist, fetchRuns, instances>>

----------------------------------------------------------------------------
(* DDGSearch.search_with_contents(_async) *)

SearchExceptionError(class) ==
    Str(<<"Failed to get search results, reason: ", class, " ", "message">>)

EmptyResultsError ==
    Str(<<"Failed to get search results, reason: ",
          "Empty search results was provided from DuckDuckGo after ">>
        \o Digits(ddg_retries) \o <<" retries.">>)

\* a search that keeps the first result only, whatever num_results is
Truncate_Always(results) == Take(results, 1)

\* search_results[: self.num_results] when the provider over-returns
Truncate(results) ==
    IF num_results # 0 /\ Len(results) > num_results
    THEN Take(results, num_results) ELSE results

\* a search that fetches the page of every result
Eligible_All(results) == [i \in 1..Len(results) |-> i]

\* indexes of the results whose page is fetched
Eligible(results) ==
    SelectSeq([i \in 1..Len(results) |-> i],
              LAMBDA i : filter_func = NoFilter \/ "contents" \in DOMAIN results[i])

\* result.get("href", "")
Href(result) == IF "href" \in DOMAIN result THEN result.href ELSE <<>>

\* the code after the provider loop
AfterLoop(results) ==
    IF results = <<>>
    THEN /\ sretval' = EmptyResultsError
         /\ spc' = "done"
         /\ search_results' = results
         /\ UNCHANGED <<tasks, filterOut>>
    ELSE LET filtered == IF filter_func # NoFilter
                         THEN ApplyFilter(filter_func, results) ELSE results
             el == Eligible(filtered)
         IN  /\ search_results' = filtered
             /\ filterOut' = filtered
             /\ tasks' = [k \in 1..Len(el) |-> NewTask(el[k], Href(filtered[el[k]]))]
             /\ spc' = "fetch"
             /\ UNCHANGED sretval

\* no provider call yet
NoCalls == [last |-> "none", nTransient |-> 0, emptyOnly |-> TRUE]

\* the history after one more transient failure of the given kind
Transient(kind) ==
    [last |-> kind, nTransient |-> provHist.nTransient + 1,
     emptyOnly |-> provHist.emptyOnly /\ kind = "empty"]

\* the search is called
SearchBegin ==
    /\ spc = "idle"
    /\ IF ddg_retries <= 0
       THEN AfterLoop(<<>>)
       ELSE /\ spc' = "call"
            /\ UNCHANGED <<search_results, tasks, sretval, filterOut>>
    /\ UNCHANGED <<searchCfgVars, cache, attempt, sraised, provHist,
                   providerResults, searchSleeps, nFetchCalls, nGets,
                   nFetchSleeps>>
    /\ UNCHANGED <<agentVars, cacheHist, fetchRuns, instances>>

\* one iteration of the provider loop: ddgs.text(...) returns a list
ProviderReturns ==
    /\ spc = "call"
    /\ attempt' = attempt + 1
    /\ \E results \in ProviderLists :
         /\ providerResults' = results
         /\ IF results = <<>>
            THEN /\ provHist' = Transient("empty")
                 /\ search_results' = results
                 /\ spc' = "sleep"
                 /\ UNCHANGED <<tasks, sretval, filterOut>>
            ELSE /\ provHist' = [provHist EXCEPT !.last = "results"]
                 /\ AfterLoop(Truncate(results))
    /\ UNCHANGED <<searchCfgVars, cache, sraised, searchSleeps, nFetchCalls,
                   nGets, nFetchSleeps>>
    /\ UNCHANGED <<agentVars, cacheHist, fetchRuns, instances>>

\* a search that retries after every provider failure
ProviderFailureClass_AllTransient(failure) == "transient"

\* the except clauses of the provider loop: RatelimitException sleeps and
\* continues, any other DDGSException returns
ProviderFailureClass(failure) ==
    IF failure = "RatelimitException" THEN "transient" ELSE "fatal"

\* one iteration of the provider loop: ddgs.text(...) raises
ProviderRaises ==
    /\ spc = "call"
    /\ attempt' = attempt + 1
    /\ \E failure \in ProviderFailures :
         /\ IF ProviderFailureClass(failure) = "transient"
            THEN /\ provHist' = Transient(failure)
                 /\ spc' = "sleep"
                 /\ UNCHANGED sretval
            ELSE /\ provHist' = [provHist EXCEPT !.last = failure]
                 /\ spc' = "done"
                 /\ sretval' = SearchExceptionError(failure)
    /\ UNCHANGED <<searchCfgVars, cache, search_results, tasks, sraised,
                   providerResults, filterOut, searchSleeps, nFetchCalls, nGets,
                   nFetchSleeps>>
    /\ UNCHANGED <<agentVars, cacheHist, fetchRuns, instances>>

\* the sleep of a failed iteration, then the next iteration or the loop's end
SearchSleep ==
    /\ spc = "sleep"
    /\ searchSleeps' = Append(searchSleeps, ddg_retry_delay)
    /\ IF MoreIterations(attempt)
       THEN /\ spc' = "call"
            /\ UNCHANGED <<search_results, tasks, sretval, filterOut>>
       ELSE AfterLoop(search_results)
    /\ UNCHANGED <<searchCfgVars, cache, attempt, sraised, provHist,
                   providerResults, nFetchCalls, nGets, nFetchSleeps>>
    /\ UNCHANGED <<agentVars, cacheHist, fetchRuns, instances>>

\* a search that stores the k-th gathered value in the k-th result
WriteBack_ByTaskOrder(results, gathered) ==
    [i \in 1..Len(results) |->
        IF i <= Len(gathered)
        THEN DictSet(results[i], "contents", gathered[i].ret)
        ELSE results[i]]

\* for (i, _), contents in zip(urls, website_contents):
\*     search_results[i]["contents"] = contents
WriteBack(results, gathered) ==
    [i \in 1..Len(results) |->
        IF \E k \in 1..Len(gathered) : gathered[k].i = i
        THEN DictSet(results[i], "contents",
                     gathered[CHOOSE k \in 1..Len(gathered) :
                                 gathered[k].i = i].ret)
        ELSE results[i]]

\* variant: the empty-result check is made again on the list to return
Returned_EmptyIsError(results) ==
    IF results = <<>> THEN EmptyResultsError ELSE List(results)

\* return search_results
Returned(results) == List(results)

\* every fetch has returned: the async search stores the gathered contents
\* by index; the list is returned
SearchReturn ==
    /\ spc = "fetch"
    /\ AllDone
    /\ LET stored == IF mode = "sync" THEN search_results
                     ELSE WriteBack(search_results, tasks)
       IN  /\ search_results' = stored
           /\ sretval' = Returned(stored)
    /\ spc' = "done"
    /\ UNCHANGED <<searchCfgVars, cache, attempt, tasks, sraised, provHist,
                   providerResults, filterOut, searchSleeps, nFetchCalls, nGets,
                   nFetchSleeps>>
    /\ UNCHANGED <<agentVars, cacheHist, fetchRuns, instances>>

\* a cache the caller filled with the page of UrlJp before the search
PopulatedCache ==
    CacheAdd(NewCache(DefaultMaxSize, DefaultMaxAge, DefaultGcTiming),
             UrlJp, Str(<<"cached page of ">> \o UrlJp), 0).cache

\* retry delays of the search explored
DdgRetryDelays == {5}

\* what the caller stores for url
CachedPage(url) == Str(<<"cached page of ">> \o url)

RECURSIVE Prefilled(_, _)
\* cache c after the caller added the pages of keys, in order, at time 0
Prefilled(c, keys) ==
    IF keys = <<>> THEN c
    ELSE CacheAdd(Prefilled(c, SubSeq(keys, 1, Len(keys) - 1)),
                  keys[Len(keys)], CachedPage(keys[Len(keys)]), 0).cache

\* (max_size, max_age, gc_timing) of the caches explored: the defaults, a
\* cache of one entry, a cache whose entries expire
CacheSettings == {<<DefaultMaxSize, DefaultMaxAge, DefaultGcTiming>>,
                  <<1, DefaultMaxAge, 3>>,
                  <<DefaultMaxSize, 1, 3>>}

\* what the caller added before the fetches
Prefills == {<<>>, <<UrlJp>>, <<UrlJp, UrlCom>>, <<UrlJp, UrlJp>>}

\* the caches a fetch can meet: none, or one built through add()
FetchCaches ==
    {NoCache} \cup
    {Prefilled(NewCache(cs[1], cs[2], cs[3]), keys) :
        cs \in CacheSettings, keys \in Prefills}

\* time.time() during the fetches (the entries were added at 0)
FetchTimes == {0, 5}

\* _get_website_contents(_async) is called with url, the calls before it
\* having returned
FetchCall ==
    /\ mode = "direct"
    /\ spc = "fetch"
    /\ AllDone
    /\ Len(tasks) < MaxFetches
    /\ \E url \in Urls \cup {<<>>} :
          tasks' = Append(tasks, NewTask(Len(tasks) + 1, url))
    /\ UNCHANGED <<searchCfgVars, cache, spc, attempt, search_results, sretval,
                   sraised, provHist, providerResults, filterOut, searchSleeps,
                   nFetchCalls, nGets, nFetchSleeps>>
    /\ UNCHANGED <<agentVars, cacheHist, fetchRuns, instances>>

\* a DDGSearch whose fetcher is called directly
FetchStartState ==
    /\ ddg_retries \in 0..MaxDdgRetries
    /\ ddg_retry_delay \in DdgRetryDelays
    /\ num_results = 0
    /\ filter_func = NoFilter
    /\ cleaning \in {"none", "remove_tags"}
    /\ cache \in FetchCaches
    /\ mode = "direct"
    /\ now \in FetchTimes
    /\ spc = "fetch"
    /\ attempt = 0
    /\ search_results = <<>>
    /\ tasks = <<>>
    /\ sretval = Unset
    /\ sraised = ""
    /\ provHist = NoCalls
    /\ providerResults = <<>>
    /\ filterOut = <<>>
    /\ searchSleeps = <<>>
    /\ nFetchCalls = 0
    /\ nGets = 0
    /\ nFetchSleeps = 0

----------------------------------------------------------------------------
(* The two page fetchers, each run to its end on the same inputs *)

\* what a fetcher did: the value returned (or the exception that escaped),
\* the GETs issued, the retry_delay sleeps made and the cache it left
FetchResult(ret, exc, gets, sleeps, c) ==
    [ret |-> ret, raised |-> exc, gets |-> gets, sleeps |-> sleeps, cache |-> c]

\* time.sleep(self.retry_delay)
SyncSleep(sleeps) == sleeps + 1

\* variant: the coroutine continues without sleeping
AsyncSleep_Skipped(sleeps) == sleeps

\* await asyncio.sleep(self.retry_delay)
AsyncSleep(sleeps) == sleeps + 1

RECURSIVE SyncAttempts(_, _, _, _, _, _, _)
\* _get_website_contents: the loop `for _ in range(self.retries)` from its
\* iteration n + 1 on, and the return after it; answers[i] is the
\* transport's answer to the i-th GET
SyncAttempts(url, answers, n, website_contents, sleeps, c, t) ==
    IF ~MoreIterations(n)
    THEN FetchResult(FetchReturn(url, website_contents), "", n, sleeps, c)
    ELSE LET answer == answers[n + 1]
             cleaned == Str(CleanHtml(Body(answer, url), cleaning))
         IN  IF answer = "status"
             THEN SyncAttempts(url, answers, n + 1, website_contents,
                               SyncSleep(sleeps), c, t)
             ELSE IF answer = "ConnectError"
             THEN FetchResult(FetchExceptionError(answer), "", n + 1, sleeps, c)
             ELSE IF ~Truthy(cleaned)
             THEN SyncAttempts(url, answers, n + 1, cleaned,
                               SyncSleep(sleeps), c, t)
             ELSE IF CacheTruthy(c)
             THEN LET a == CacheAdd(c, url, cleaned, t)
                  IN  IF a.exc # ""
                      THEN FetchResult(Unset, a.exc, n + 1, sleeps, a.cache)
                      ELSE FetchResult(FetchReturn(url, cleaned), "", n + 1,
                                       sleeps, a.cache)
             ELSE FetchResult(FetchReturn(url, cleaned), "", n + 1, sleeps, c)

\* DDGSearch._get_website_contents(client, url)
GetWebsiteContents(c, url, answers, t) ==
    IF NoUrl(url)
    THEN FetchResult(NoUrlError, "", 0, 0, c)
    ELSE IF CacheTruthy(c)
    THEN LET g == CacheGet(c, url, t)
         IN  IF g.exc # ""
             THEN FetchResult(Unset, g.exc, 0, 0, g.cache)
             ELSE FetchResult(FetchReturn(url, g.value), "", 0, 0, g.cache)
    ELSE SyncAttempts(url, answers, 0, None, 0, c, t)

RECURSIVE AsyncAttempts(_, _, _, _, _, _, _)
\* _get_website_contents_async: the loop from its iteration n + 1 on, and
\* the return after it
AsyncAttempts(url, answers, n, website_contents, sleeps, c, t) ==
    IF ~MoreIterations(n)
    THEN FetchResult(FetchReturn(url, website_contents), "", n, sleeps, c)
    ELSE LET answer == answers[n + 1]
             cleaned == Str(CleanHtml(Body(answer, url), cleaning))
         IN  IF answer = "status"
             THEN AsyncAttempts(url, answers, n + 1, website_contents,
                                AsyncSleep(sleeps), c, t)
             ELSE IF answer = "ConnectError"
             THEN FetchResult(FetchExceptionError(answer), "", n + 1, sleeps, c)
             ELSE IF ~Truthy(cleaned)
             THEN AsyncAttempts(url, answers, n + 1, cleaned,
                                AsyncSleep(sleeps), c, t)
             ELSE IF CacheTruthy(c)
             THEN LET a == CacheAdd(c, url, cleaned, t)
                  IN  IF a.exc # ""
                      THEN FetchResult(Unset, a.exc, n + 1, sleeps, a.cache)
                      ELSE FetchResult(FetchReturn(url, cleaned), "", n + 1,
                                       sleeps, a.cache)
             ELSE FetchResult(FetchReturn(url, cleaned), "", n + 1, sleeps, c)

\* DDGSearch._get_website_contents_async(client, url)
GetWebsiteContentsAsync(c, url, answers, t) ==
    IF NoUrl(url)
    THEN FetchResult(NoUrlError, "", 0, 0, c)
    ELSE IF CacheTruthy(c)
    THEN LET g == CacheGet(c, url, t)
         IN  IF g.exc # ""
             THEN FetchResult(Unset, g.exc, 0, 0, g.cache)
             ELSE FetchResult(FetchReturn(url, g.value), "", 0, 0, g.cache)
    ELSE AsyncAttempts(url, answers, 0, None, 0, c, t)

\* neither fetcher has been run
NoFetchRuns == [url |-> <<>>, answers |-> <<>>, sync |-> Unset, async |-> Unset]

\* the answers of the transport to up to MaxDdgRetries GETs
AnswerSeqs == [1..MaxDdgRetries -> TransportOutcomes]

\* the synchronous fetcher is run on the inputs
RunSync ==
    /\ mode = "twins"
    /\ fetchRuns.sync = Unset
    /\ fetchRuns' = [fetchRuns EXCEPT !.sync =
           GetWebsiteContents(cache, fetchRuns.url, fetchRuns.answers, now)]
    /\ UNCHANGED <<agentVars, searchVars, cacheHist, instances>>

\* the asynchronous fetcher is run on the same inputs
RunAsync ==
    /\ mode = "twins"
    /\ fetchRuns.async = Unset
    /\ fetchRuns' = [fetchRuns EXCEPT !.async =
           GetWebsiteContentsAsync(cache, fetchRuns.url, fetchRuns.answers, now)]
    /\ UNCHANGED <<agentVars, searchVars, cacheHist, instances>>

\* a DDGSearch, a url and the answers the transport will give
TwinsStartState ==
    /\ ddg_retries \in 0..MaxDdgRetries
    /\ ddg_retry_delay \in DdgRetryDelays
    /\ num_results = 0
    /\ filter_func = NoFilter
    /\ cleaning \in {"none", "remove_tags"}
    /\ cache \in FetchCaches
    /\ mode = "twins"
    /\ now \in FetchTimes
    /\ spc = "parked"
    /\ attempt = 0
    /\ search_results = <<>>
    /\ tasks = <<>>
    /\ sretval = Unset
    /\ sraised = ""
    /\ provHist = NoCalls
    /\ providerResults = <<>>
    /\ filterOut = <<>>
    /\ searchSleeps = <<>>
    /\ nFetchCalls = 0
    /\ nGets = 0
    /\ nFetchSleeps = 0
    /\ \E url \in Urls \cup {<<>>}, answers \in AnswerSeqs :
          fetchRuns = [url |-> url, answers |-> answers,
                       sync |-> Unset, async |-> Unset]
    /\ instances = NoInstances

\* a cache of one entry that holds two, its eviction pass due at the next
\* counted call
CrowdedCache == Prefilled(NewCache(1, DefaultMaxAge, 3), <<UrlJp, UrlCom>>)

\* the caches of the searches explored: the default one still empty, and
\* caches the caller filled
SearchCaches ==
    {NewCache(DefaultMaxSize, DefaultMaxAge, DefaultGcTiming),
     PopulatedCache, CrowdedCache}

SearchStart ==
    /\ ddg_retries \in 0..MaxDdgRetries
    /\ ddg_retry_delay \in DdgRetryDelays
    /\ num_results \in {0, 1}
    /\ filter_func \in FilterFuncs
    /\ cleaning \in {"none", "remove_tags"}
    /\ cache \in SearchCaches
    /\ mode \in {"sync", "async"}
    /\ now = 0
    /\ spc = "idle"
    /\ attempt = 0
    /\ search_results = <<>>
    /\ tasks = <<>>
    /\ sretval = Unset
    /\ sraised = ""
    /\ provHist = NoCalls
    /\ providerResults = <<>>
    /\ filterOut = <<>>
    /\ searchSleeps = <<>>
    /\ nFetchCalls = 0
    /\ nGets = 0
    /\ nFetchSleeps = 0

\* the search is not running (agent specification)
SearchParked ==
    /\ ddg_retries = 0
    /\ ddg_retry_delay = 0
    /\ num_results = 0
    /\ filter_func = NoFilter
    /\ cleaning = "none"
    /\ cache = NoCache
    /\ mode = "sync"
    /\ now = 0
    /\ spc = "parked"
    /\ attempt = 0
    /\ search_results = <<>>
    /\ tasks = <<>>
    /\ sretval = Unset
    /\ sraised = ""
    /\ provHist = NoCalls
    /\ providerResults = <<>>
    /\ filterOut = <<>>
    /\ searchSleeps = <<>>
    /\ nFetchCalls = 0
    /\ nGets = 0
    /\ nFetchSleeps = 0

\* the agent is not running (search specification)
AgentParked ==
    /\ self_retries = -1
    /\ self_retry_delay = -1
    /\ output_format = "message"
    /\ pc = "parked"
    /\ retries = 0
    /\ response = NoResponse
    /\ fcIdx = 0
    /\ tool_responses = <<>>
    /\ sleep_sec = 0
    /\ retval = [kind |-> "unset"]
    /\ raised = ""
    /\ nRequests = 0
    /\ nFollowups = 0
    /\ nToolResponses = 0
    /\ nCallsRequested = 0
    /\ nDispatched = 0
    /\ nToolInvocations = 0
    /\ dispatchCount = <<>>
    /\ toolOutcomes = <<>>
    /\ nPartsSent = 0
    /\ lastOutcome = [kind |-> "none"]
    /\ lastEvent = "none"
    /\ lastSleep = -1
    /\ hadError = FALSE
    /\ onlyRateLimited = TRUE
    /\ SessionStart

----------------------------------------------------------------------------
(* DDGSearchCache used by a caller: set, get, delete, clear, in, len *)

\* keys the caller sets, and a key it only ever looks up
CacheKeys == {UrlJp, UrlCom}

ProbeKey == <<"https://c", ".org", "/3">>

\* the default the caller passes to get
DefaultSentinel == [t |-> "default"]

\* max_size, max_age and gc_timing explored
CacheSizes == {-1, 0, 1}

CacheAges == {-1, 1}

CacheCadences == {0, 3}

NoCacheOps ==
    [nOps |-> 0, onlySets |-> TRUE, everSet |-> {}, created |-> <<>>,
     op |-> "none", key |-> <<>>, exc |-> "", value |-> Unset,
     gc |-> FALSE, setTwice |-> FALSE, onlySetGet |-> TRUE]

\* the time each key data holds was last set, after an operation
CreatedAfter(created, data) ==
    [k \in DOMAIN data \cap DOMAIN created |-> created[k]]

\* cache[key] = value / add(key, value)
CacheSetOp ==
    /\ mode = "cache"
    /\ cacheHist.nOps < MaxCacheOps
    /\ \E key \in CacheKeys :
          LET a == CacheAdd(cache, key, CachedPage(key), now)
          IN  /\ cache' = a.cache
              /\ cacheHist' =
                    [cacheHist EXCEPT
                       !.nOps = @ + 1,
                       !.gc = a.gc,
                       !.setTwice = @ \/ key \in cacheHist.everSet,
                       !.everSet = @ \cup {key},
                       !.created = CreatedAfter(DictSet(@, key, now), a.cache.data),
                       !.op = "set", !.key = key, !.exc = a.exc,
                       !.value = Unset]
    /\ UNCHANGED <<searchCfgVars, spc, attempt, search_results, tasks, sretval,
                   sraised, provHist, providerResults, filterOut, searchSleeps,
                   nFetchCalls, nGets, nFetchSleeps>>
    /\ UNCHANGED <<agentVars, fetchRuns, instances>>

\* get(key, default)
CacheGetOp ==
    /\ mode = "cache"
    /\ cacheHist.nOps < MaxCacheOps
    /\ \E key \in CacheKeys \cup {ProbeKey} :
          LET g == CacheGetOr(cache, key, DefaultSentinel, now)
          IN  /\ cache' = g.cache
              /\ cacheHist' =
                    [cacheHist EXCEPT
                       !.nOps = @ + 1, !.onlySets = FALSE, !.gc = g.gc,
                       !.created = CreatedAfter(@, g.cache.data),
                       !.op = "get", !.key = key, !.exc = g.exc,
                       !.value = IF g.exc = "" THEN g.value ELSE Unset]
    /\ UNCHANGED <<searchCfgVars, spc, attempt, search_results, tasks, sretval,
                   sraised, provHist, providerResults, filterOut, searchSleeps,
                   nFetchCalls, nGets, nFetchSleeps>>
    /\ UNCHANGED <<agentVars, fetchRuns, instances>>

\* del cache[key] / remove(key)
CacheDeleteOp ==
    /\ mode = "cache"
    /\ cacheHist.nOps < MaxCacheOps
    /\ \E key \in CacheKeys :
          LET r == CacheRemove(cache, key, now)
          IN  /\ cache' = r.cache
              /\ cacheHist' =
                    [cacheHist EXCEPT
                       !.nOps = @ + 1, !.onlySets = FALSE, !.gc = r.gc,
                       !.onlySetGet = FALSE,
                       !.created = CreatedAfter(@, r.cache.data),
                       !.op = "delete", !.key = key, !.exc = r.exc,
                       !.value = Unset]
    /\ UNCHANGED <<searchCfgVars, spc, attempt, search_results, tasks, sretval,
                   sraised, provHist, providerResults, filterOut, searchSleeps,
                   nFetchCalls, nGets, nFetchSleeps>>
    /\ UNCHANGED <<agentVars, fetchRuns, instances>>

\* clear()
CacheClearOp ==
    /\ mode = "cache"
    /\ cacheHist.nOps < MaxCacheOps
    /\ cache' = CacheClear(cache)
    /\ cacheHist' = [cacheHist EXCEPT
                       !.nOps = @ + 1, !.onlySets = FALSE, !.created = <<>>,
                       !.gc = FALSE, !.onlySetGet = FALSE,
                       !.op = "clear", !.key = <<>>, !.exc = "",
                       !.value = Unset]
    /\ UNCHANGED <<searchCfgVars, spc, attempt, search_results, tasks, sretval,
                   sraised, provHist, providerResults, filterOut, searchSleeps,
                   nFetchCalls, nGets, nFetchSleeps>>
    /\ UNCHANGED <<agentVars, fetchRuns, instances>>

\* key in cache
CacheContainsOp ==
    /\ mode = "cache"
    /\ cacheHist.nOps < MaxCacheOps
    /\ \E key \in CacheKeys \cup {ProbeKey} :
          cacheHist' =
             [cacheHist EXCEPT
                !.nOps = @ + 1, !.onlySets = FALSE, !.gc = FALSE,
                !.onlySetGet = FALSE,
                !.op = "contains", !.key = key, !.exc = "",
                !.value = [t |-> "bool", v |-> CacheContains(cache, key)]]
    /\ UNCHANGED cache
    /\ UNCHANGED <<searchCfgVars, spc, attempt, search_results, tasks, sretval,
                   sraised, provHist, providerResults, filterOut, searchSleeps,
                   nFetchCalls, nGets, nFetchSleeps>>
    /\ UNCHANGED <<agentVars, fetchRuns, instances>>

\* len(cache)
CacheSizeOp ==
    /\ mode = "cache"
    /\ cacheHist.nOps < MaxCacheOps
    /\ cacheHist' =
          [cacheHist EXCEPT
             !.nOps = @ + 1, !.onlySets = FALSE, !.gc = FALSE,
             !.onlySetGet = FALSE,
             !.op = "size", !.key = <<>>, !.exc = "",
             !.value = [t |-> "int", v |-> CacheLen(cache)]]
    /\ UNCHANGED cache
    /\ UNCHANGED <<searchCfgVars, spc, attempt, search_results, tasks, sretval,
                   sraised, provHist, providerResults, filterOut, searchSleeps,
                   nFetchCalls, nGets, nFetchSleeps>>
    /\ UNCHANGED <<agentVars, fetchRuns, instances>>

\* time passes between two operations
Tick ==
    /\ mode = "cache"
    /\ now < MaxTime
    /\ now' = now + 1
    /\ UNCHANGED <<ddg_retries, ddg_retry_delay, num_results, filter_func,
                   cleaning, mode>>
    /\ UNCHANGED <<cache, spc, attempt, search_results, tasks, sretval,
                   sraised, provHist, providerResults, filterOut, searchSleeps,
                   nFetchCalls, nGets, nFetchSleeps>>
    /\ UNCHANGED <<agentVars, cacheHist, fetchRuns, instances>>

\* a freshly constructed cache in the hands of a caller
CacheStartState ==
    /\ ddg_retries = 0
    /\ ddg_retry_delay = 0
    /\ num_results = 0
    /\ filter_func = NoFilter
    /\ cleaning = "none"
    /\ \E ms \in CacheSizes, ma \in CacheAges, gt \in CacheCadences :
          cache = NewCache(ms, ma, gt)
    /\ mode = "cache"
    /\ now = 0
    /\ spc = "parked"
    /\ attempt = 0
    /\ search_results = <<>>
    /\ tasks = <<>>
    /\ sretval = Unset
    /\ sraised = ""
    /\ provHist = NoCalls
    /\ providerResults = <<>>
    /\ filterOut = <<>>
    /\ searchSleeps = <<>>
    /\ nFetchCalls = 0
    /\ nGets = 0
    /\ nFetchSleeps = 0
    /\ cacheHist = NoCacheOps /\ fetchRuns = NoFetchRuns
    /\ instances = NoInstances

----------------------------------------------------------------------------
(* Specifications *)

\* ainvoke(message): no files, no thinking budget
NoArguments == thinking_budget = None /\ files = <<>>

Init ==
    /\ AgentStart /\ NoArguments
    /\ SearchParked /\ cacheHist = NoCacheOps /\ fetchRuns = NoFetchRuns
    /\ instances = NoInstances

Next == Begin \/ GiveUp \/ SendMessage \/ DispatchTool \/ SendFollowup \/ Sleep

\* one agent turn
Spec == Init /\ [][Next]_vars

\* one agent turn in which every awaited request, tool call and sleep
\* returns: the event loop resumes the coroutine whenever it can continue
LiveSpec == Init /\ [][Next]_vars /\ WF_vars(Next)

TurnsInit ==
    /\ AgentStart /\ output_format = "message" /\ self_retries > 0
    /\ thinking_budget = Tokens(1) /\ files = <<>>
    /\ SearchParked /\ cacheHist = NoCacheOps /\ fetchRuns = NoFetchRuns
    /\ instances = NoInstances

TurnsNext == Next \/ NewTurn

\* calls of ainvoke(message, thinking_budget=1) made one after the other on
\* the same agent, which has a bounded retry count
TurnsSpec == TurnsInit /\ [][TurnsNext]_vars

\* a local path given as str, the same as a Path, and a URL
UploadInputs ==
    {Str(<<"doc", ".pdf">>), PathOf(<<"doc", ".pdf">>),
     Str(<<"https://", "host/doc", ".PDF">>)}

\* the `files` arguments explored: no input is attached twice
FileLists ==
    {inputs \in UNION {[1..n -> UploadInputs] : n \in 1..MaxFiles} :
        \A i, j \in 1..Len(inputs) : inputs[i] = inputs[j] => i = j}

UploadInit ==
    /\ AgentStart /\ output_format = "message"
    /\ self_retries = 1 /\ self_retry_delay = 3
    /\ thinking_budget = None /\ files \in FileLists
    /\ SearchParked /\ cacheHist = NoCacheOps /\ fetchRuns = NoFetchRuns
    /\ instances = NoInstances

UploadNext == Next \/ Gathered \/ \E i \in 1..MaxFiles : UploadFile(i)

\* one call ainvoke(message, files=[...]) on an agent with retries=1 and
\* retry_delay=3
UploadSpec == UploadInit /\ [][UploadNext]_vars

SearchInit ==
    /\ AgentParked /\ SearchStart
    /\ cacheHist = NoCacheOps /\ fetchRuns = NoFetchRuns
    /\ instances = NoInstances

\* a DDGSearch(cache=None, cleaning=HTMLCleaning.remove_tags) with a budget
\* of one or two attempts
BareSearchStart ==
    /\ ddg_retries \in {1, 2}
    /\ ddg_retry_delay \in DdgRetryDelays
    /\ num_results = 0
    /\ filter_func \in FilterFuncs
    /\ cleaning = "remove_tags"
    /\ cache = NoCache
    /\ mode \in {"sync", "async"}
    /\ now = 0
    /\ spc = "idle"
    /\ attempt = 0
    /\ search_results = <<>>
    /\ tasks = <<>>
    /\ sretval = Unset
    /\ sraised = ""
    /\ provHist = NoCalls
    /\ providerResults = <<>>
    /\ filterOut = <<>>
    /\ searchSleeps = <<>>
    /\ nFetchCalls = 0
    /\ nGets = 0
    /\ nFetchSleeps = 0

BareSearchInit ==
    /\ AgentParked /\ BareSearchStart
    /\ cacheHist = NoCacheOps /\ fetchRuns = NoFetchRuns
    /\ instances = NoInstances

SearchNext ==
    \/ SearchBegin
    \/ ProviderReturns
    \/ ProviderRaises
    \/ SearchSleep
    \/ \E k \in 1..MaxResults : FetchStart(k)
    \/ \E k \in 1..MaxResults : FetchGet(k)
    \/ SearchReturn

\* one search, sync or async
SearchSpec == SearchInit /\ [][SearchNext]_vars

\* one search, sync or async, of a DDGSearch without a cache, the transport
\* giving every kind of answer
BareSearchSpec == BareSearchInit /\ [][SearchNext]_vars

FetchInit ==
    /\ AgentParked /\ FetchStartState
    /\ cacheHist = NoCacheOps /\ fetchRuns = NoFetchRuns
    /\ instances = NoInstances

FetchNext ==
    \/ FetchCall
    \/ \E k \in 1..MaxFetches : FetchStart(k)
    \/ \E k \in 1..MaxFetches : FetchGet(k)

\* fetches called directly, one after the other
FetchSpec == FetchInit /\ [][FetchNext]_vars

CacheInit == AgentParked /\ CacheStartState

\* no search runs: only DDGSearch objects are constructed and their caches
\* used
InstancesStartState ==
    /\ ddg_retries = 0
    /\ ddg_retry_delay = 0
    /\ num_results = 0
    /\ filter_func = NoFilter
    /\ cleaning = "none"
    /\ cache = NoCache
    /\ mode = "instances"
    /\ now = 0
    /\ spc = "parked"
    /\ attempt = 0
    /\ search_results = <<>>
    /\ tasks = <<>>
    /\ sretval = Unset
    /\ sraised = ""
    /\ provHist = NoCalls
    /\ providerResults = <<>>
    /\ filterOut = <<>>
    /\ searchSleeps = <<>>
    /\ nFetchCalls = 0
    /\ nGets = 0
    /\ nFetchSleeps = 0

InstancesInit ==
    /\ AgentParked /\ InstancesStartState
    /\ cacheHist = NoCacheOps /\ fetchRuns = NoFetchRuns
    /\ instances = NoInstances

InstancesNext == Construct \/ \E i \in 1..MaxInstances : ClientCacheOp(i)

\* DDGSearch objects of one process and the caches they hold
InstancesSpec == InstancesInit /\ [][InstancesNext]_vars

TwinsInit == AgentParked /\ TwinsStartState /\ cacheHist = NoCacheOps

TwinsNext == RunSync \/ RunAsync

\* the two page fetchers on the same cache, url and transport answers
TwinsSpec == TwinsInit /\ [][TwinsNext]_vars

CacheNext ==
    \/ CacheSetOp
    \/ CacheGetOp
    \/ CacheDeleteOp
    \/ CacheClearOp
    \/ CacheContainsOp
    \/ CacheSizeOp
    \/ Tick

\* a caller operating a cache
CacheSpec == CacheInit /\ [][CacheNext]_vars

----------------------------------------------------------------------------
(* Properties of the agent turn, checked under Spec *)

Range(f) == {f[i] : i \in DOMAIN f}

InToolRound == pc \in {"dispatch", "followup"}

LastWasRateLimit ==
    lastOutcome.kind = "error" /\ lastOutcome.exc = "ClientError"
        /\ lastOutcome.code = 429

LastWasServerError == lastOutcome.kind = "error" /\ lastOutcome.exc = "ServerError"

LastWasOtherError ==
    lastOutcome.kind = "error" /\ ~LastWasRateLimit /\ ~LastWasServerError

\* C1: in a turn without provider errors every requested tool call is
\* dispatched exactly once and every response with tool calls is answered by
\* exactly one follow-up request; one tool call followed by terminal text is
\* one tool invocation and one follow-up.
C1_EachCallDispatchedOnce ==
    /\ pc = "followup" =>
          /\ Len(tool_responses) = Len(response.function_calls)
          /\ \A i \in DOMAIN dispatchCount : dispatchCount[i] = 1
    /\ ~hadError =>
          nFollowups = nToolResponses - (IF InToolRound THEN 1 ELSE 0)
    /\ (pc = "done" /\ ~hadError) =>
          /\ nDispatched = nCallsRequested
          /\ nRequests = 1 + nFollowups
          /\ (nToolResponses = 1 /\ nCallsRequested = 1) =>
                /\ nDispatched = 1
                /\ nFollowups = 1
                /\ nToolInvocations =
                      (IF tool_responses[1].name \in tool_functions THEN 1 ELSE 0)

C1_Witness ==
    /\ pc = "done" /\ ~hadError
    /\ nToolResponses = 1 /\ nCallsRequested = 1
    /\ nToolInvocations = 1 /\ nFollowups = 1 /\ nRequests = 2
    /\ retval = [kind |-> "str", text |-> "answer"]

\* C2: dispatching a tool call never raises into the turn loop: an unknown
\* name gives an error part naming the tool, a raising tool gives an error
\* part carrying the tool name and the exception class; every part is sent
\* in the follow-up request and the turn goes on.
C2_DispatchNeverRaises ==
    /\ lastEvent = "tool" =>
          InToolRound /\ raised = "" /\ retval.kind = "unset"
    /\ InToolRound =>
          \A i \in 1..Len(tool_responses) :
             LET name == response.function_calls[i]
                 part == tool_responses[i]
             IN  /\ part.name = name
                 /\ name \notin tool_functions =>
                       part.key = "error" /\ name \in Range(part.value)
                 /\ (name \in tool_functions /\ toolOutcomes[i] # "ok") =>
                       /\ part.key = "error"
                       /\ name \in Range(part.value)
                       /\ toolOutcomes[i] \in Range(part.value)
                 /\ (name \in tool_functions /\ toolOutcomes[i] = "ok") =>
                       part.key = "result"
    /\ pc = "followup" => Len(tool_responses) = Len(response.function_calls)
    /\ nPartsSent + (IF InToolRound THEN Len(tool_responses) ELSE 0) = nDispatched

C2_Witness ==
    /\ pc = "done" /\ retval = [kind |-> "str", text |-> "answer"]
    /\ nFollowups = 1 /\ nPartsSent = 2
    /\ \E i \in 1..Len(tool_responses) :
          tool_responses[i].name \notin tool_functions
              /\ tool_responses[i].key = "error"
    /\ \E i \in 1..Len(tool_responses) :
          toolOutcomes[i] = "ValueError" /\ tool_responses[i].key = "error"

\* the sleep the claim expects after the latest rate-limit error
ExpectedSleep == IF self_retry_delay > 0 THEN self_retry_delay
                 ELSE lastOutcome.suggested

\* C3: after a rate-limit error the agent sleeps before the next model
\* request, for retry_delay seconds if retry_delay > 0 and otherwise for
\* exactly the delay the provider's payload suggests; no request is issued
\* between the error and the end of that sleep.
C3_SleepBeforeRetry ==
    /\ []((LastWasRateLimit /\ pc = "sleep") => sleep_sec = ExpectedSleep)
    /\ [][(LastWasRateLimit /\ nRequests' = nRequests + 1) =>
             (lastEvent = "sleep" /\ lastSleep = ExpectedSleep)]_vars

C3_Witness ==
    /\ pc = "done" /\ output_format = "message"
    /\ self_retry_delay = -1 /\ lastSleep = 7
    /\ nRequests = 2 /\ nFollowups = 0
    /\ retval = [kind |-> "str", text |-> "answer"]

\* C4 (as claimed): with retries = N > 0 and a provider that rate-limits every
\* request, the turn issues at most N + 1 requests and then returns the
\* failure sentinel.
C4_BudgetExhaustionReturnsSentinel ==
    (self_retries > 0 /\ onlyRateLimited /\ nRequests >= 1) =>
        /\ nRequests <= self_retries + 1
        /\ pc \in {"loop", "sleep", "done"}
        /\ pc = "done" => (retval = FailureSentinel /\ nRequests = self_retries + 1)

C6_MessageModeAlwaysReturnsString ==
    (output_format = "message" /\ pc \in {"done", "raised"}) =>
        (pc = "done" /\ raised = "" /\ retval.kind = "str")

\* how often the history of the chat session holds the user's message
UserMessagesRecorded ==
    Cardinality({i \in 1..Len(chat_history) : chat_history[i] = "user"})

\* C21: within one turn the user's message is appended to the conversation
\* history exactly once, however many rate-limit retries happen and whether
\* the rate-limited request is the initial one or a follow-up: the history
\* never holds it twice, and holds it once when the turn returns a response.
C21_UserMessageAppendedOnce ==
    /\ UserMessagesRecorded <= 1
    /\ (pc = "done" /\ retval # FailureSentinel) => UserMessagesRecorded = 1

\* the exploration stops here: the next request would be one more than
\* MaxRequests
RequestsCapped == pc = "loop" /\ ~BudgetExhausted /\ nRequests = MaxRequests

\* C22: with a bounded retry count (retries > 0) every turn eventually
\* terminates by returning a response or the failure sentinel, whatever the
\* provider and the tools do.
C22_BoundedTurnTerminates ==
    (self_retries > 0) => <>(pc = "done" \/ RequestsCapped)

\* C23: a rate-limited request whose payload carries no retry delay, with
\* retry_delay <= 0 configured, is followed by a sleep of a fallback
\* duration and a retry: nothing is raised and the turn does not end there.
C23_MissingDelayFallsBack ==
    (lastEvent = "request" /\ LastWasRateLimit /\ lastOutcome.suggested = -1
     /\ self_retry_delay <= 0) =>
        /\ pc = "sleep"
        /\ raised = ""
        /\ sleep_sec > 0

\* C26: the parts sent in a follow-up are in request order, one per
\* requested call: part i names the i-th call of the response and carries
\* what that call did (its result, its error, or "not supported").
C26_ResultsInRequestOrder ==
    pc = "followup" =>
        /\ Len(tool_responses) = Len(response.function_calls)
        /\ \A i \in 1..Len(tool_responses) :
              LET call == response.function_calls[i]
                  part == tool_responses[i]
              IN  /\ part.name = call
                  /\ part.key = "result" <=>
                        (call \in tool_functions /\ toolOutcomes[i] = "ok")
                  /\ (call \notin tool_functions) =>
                        part.value = <<"Error: Tool '", call, "' is not supported.">>
                  /\ (call \in tool_functions /\ toolOutcomes[i] # "ok") =>
                        Contains(part.value, toolOutcomes[i])

\* C26 witness: the model asked for an unknown tool and then for the search,
\* whose coroutine raised; the follow-up is about to carry the two error
\* parts in that order.
C26_Witness ==
    /\ pc = "followup"
    /\ response.function_calls = <<"get_weather", "search_with_contents">>
    /\ toolOutcomes = <<"ok", "ValueError">>
    /\ tool_responses[1].name = "get_weather"
    /\ tool_responses[2].name = "search_with_contents"
    /\ tool_responses[2].key = "error"

\* C27: the calls of one response are dispatched concurrently: when the
\* agent has waited for one of them to finish, every call of the response
\* has been started.
C27_AllStartedBeforeAnyFinishes ==
    (InToolRound /\ Len(toolOutcomes) >= 1) =>
        \A j \in DOMAIN dispatchCount : dispatchCount[j] >= 1

\* C37: when the follow-up that carries the tool results is rate-limited
\* (or hits a server error), the agent sleeps and goes back to the top of
\* the loop: the next request is the user message again and carries no tool
\* result; a tool-call round after the restart starts from an empty result
\* list with none of its calls dispatched, and dispatches every call of the
\* new response before its follow-up; no collected result is ever sent
\* twice.
C37_RetryRestartsTheTurn ==
    /\ [][(pc = "followup" /\ nRequests' > nRequests
             /\ lastOutcome'.kind = "error"
             /\ lastOutcome'.class \in {"rate_limit", "server"}
             /\ pc' # "raised")
            => pc' = "sleep"]_vars
    /\ [][pc = "sleep" => pc' = "loop"]_vars
    /\ [][(pc = "loop" /\ nRequests' > nRequests)
            => /\ nPartsSent' = nPartsSent
               /\ nFollowups' = nFollowups
               /\ lastOutcome'.kind = "response"
                    => chat_history' = chat_history \o <<"user", "model">>]_vars
    /\ [][(pc = "loop" /\ pc' = "dispatch")
            => /\ tool_responses' = <<>>
               /\ \A i \in DOMAIN dispatchCount' : dispatchCount'[i] = 0]_vars
    /\ [](pc = "followup"
            => /\ Len(tool_responses) = Len(response.function_calls)
               /\ \A i \in DOMAIN dispatchCount : dispatchCount[i] = 1)
    /\ [](nPartsSent <= nDispatched)

\* C37 witness: the model asked for tools, the follow-up with their results
\* was rate-limited, the agent slept and sent the user message again, the
\* model asked for tools again, they were invoked a second time, and the
\* second follow-up got the answer
C37_Witness ==
    /\ pc = "done"
    /\ retval # FailureSentinel
    /\ chat_history = <<"user", "model", "user", "model", "tool", "model">>
    /\ nRequests = 4
    /\ nFollowups = 2
    /\ nToolResponses = 2
    /\ nToolInvocations >= 2
    /\ lastSleep >= 0
    /\ nPartsSent = nDispatched

\* the requests issued by the current call
RequestsOfTurn == nRequests - prevTurn.nRequests

\* C25: the retry counter is per call. Every call starts with a counter of
\* 0; no step of a call changes the agent's retry configuration or default
\* generation config (the tool registry is fixed at construction); and the
\* call that follows a failed one has the full budget again: it does not
\* give up before it has issued a request, and when every request of it is
\* rate-limited it gives up after retries + 1 of them.
C25_CounterIsPerCall ==
    /\ [][(pc = "idle" /\ pc' # "idle") => retries' = 0]_vars
    /\ [][cfgVars' = cfgVars /\ self_config' = self_config]_vars
    /\ []((turn > 1 /\ prevTurn.failed /\ pc = "done") =>
             /\ RequestsOfTurn >= 1
             /\ (onlyRateLimited /\ retval = FailureSentinel) =>
                   RequestsOfTurn = self_retries + 1)

\* C25 witness: retries = 1 and a fixed delay; the first call was
\* rate-limited twice and gave up, and so did the second call, after two
\* requests of its own.
C25_Witness ==
    /\ turn = 2 /\ prevTurn.failed /\ prevTurn.nRequests = 2
    /\ self_retries = 1 /\ self_retry_delay = 3
    /\ pc = "done" /\ retval = FailureSentinel
    /\ onlyRateLimited /\ hadError
    /\ RequestsOfTurn = 2 /\ retries = 2
    /\ self_config = DefaultConfig /\ config.thinking_config = Tokens(1)

\* C20: a turn that ends by returning a model response returns one without
\* function calls; every response that carries function calls, the first as
\* well as the answer to a follow-up, sends the agent to dispatch them.
C20_ReturnsOnlyCallFreeResponse ==
    /\ (lastEvent = "request" /\ lastOutcome.kind = "response"
        /\ response.function_calls # <<>>) => pc = "dispatch"
    /\ (pc = "done" /\ lastEvent = "request" /\ lastOutcome.kind = "response") =>
          /\ response.function_calls = <<>>
          /\ retval = FinalValue(response)
          /\ nFollowups = nToolResponses

\* C20 witness: two consecutive tool-call rounds, then the text response is
\* returned.
C20_Witness ==
    /\ pc = "done" /\ ~hadError /\ output_format = "raw"
    /\ nToolResponses = 2 /\ nFollowups = 2 /\ nRequests = 3
    /\ retval = [kind |-> "response", response |-> TextResponse]

----------------------------------------------------------------------------
(* Properties of a call with attached files (UploadSpec) *)

\* the exceptions a download or an upload of an input ends in
UploadExceptions == {"ConnectError", "HTTPStatusError", "TypeError", "UploadError"}

\* every input has been uploaded exactly once, and attached_files holds the
\* handles in the order of `files`
AllUploadedOnce ==
    /\ Len(uploads) = Len(files)
    /\ Len(attached_files) = Len(files)
    /\ \A i \in 1..Len(files) :
         /\ uploads[i].stage = "done"
         /\ uploads[i].puts = 1
         /\ uploads[i].gets = (IF IsRemote(files[i]) THEN 1 ELSE 0)
         /\ attached_files[i] = uploads[i].handle
         /\ attached_files[i].source = files[i]

\* C28: in a call with files every input is downloaded (a URL) and uploaded
\* at most once, and exactly once before the first model request; when a
\* download or an upload fails its exception leaves the call, nothing is
\* tried again and no model request is made; and the requests of the retry
\* loop, rate-limit retries included, leave the uploads and the handles as
\* they are
C28_UploadedOnceOutsideTheLoop ==
    /\ [](\A i \in 1..Len(uploads) :
              uploads[i].puts <= 1 /\ uploads[i].gets <= 1)
    /\ []((nRequests > 0 \/ pc \in {"loop", "sleep", "dispatch", "followup", "done"})
              => AllUploadedOnce)
    /\ []((\E i \in 1..Len(uploads) : uploads[i].exc # "")
              => /\ pc = "raised"
                 /\ raised \in UploadExceptions
                 /\ nRequests = 0
                 /\ \E i \in 1..Len(uploads) :
                        uploads[i].stage = "failed" /\ uploads[i].exc = raised)
    /\ [][pc \notin {"idle", "upload", "raised"}
              => uploads' = uploads /\ attached_files' = attached_files]_vars

\* C28 witness: a call with a local file and a URL was rate-limited, slept,
\* asked again with the same handles and got its answer
C28_Witness ==
    /\ pc = "done"
    /\ retval # FailureSentinel
    /\ lastSleep = 3
    /\ nRequests >= 2
    /\ AllUploadedOnce
    /\ \E i, j \in 1..Len(files) : IsRemote(files[i]) /\ ~IsRemote(files[j])

\* C36: for a URL input whose download succeeded, the guess of the content
\* type raises nothing and is the Content-Type the response declares when
\* it declares one, else the suffix table's entry for the lower-cased url's
\* extension (text/plain when the table has none).
C36_TypeFromHeaderElseSuffix ==
    \A i \in 1..Len(uploads) :
        (IsRemote(files[i]) /\ uploads[i].res = "ok") =>
            /\ uploads[i].exc # "TypeError"
            /\ uploads[i].mime =
                  (IF uploads[i].declared # "" THEN uploads[i].declared
                   ELSE MimeBySuffix(Lower(files[i].v)))

----------------------------------------------------------------------------
(* Properties of one search (SearchSpec) *)

Hrefs(results) == [i \in 1..Len(results) |-> results[i].href]

WithoutContents(result) == [k \in DOMAIN result \ {"contents"} |-> result[k]]

HasContents(result) == "contents" \in DOMAIN result

\* the provider's last list, cut to num_results when that is set
ProviderAnswer ==
    IF num_results # 0 THEN Take(providerResults, num_results)
    ELSE providerResults

TransientKinds == {"empty", "RatelimitException"}

IsSearchError(value) ==
    /\ value.t = "str"
    /\ Len(value.v) >= 1
    /\ value.v[1] = "Failed to get search results, reason: "

\* C7: when the first k provider calls (k < retries) answer with an empty
\* list or a rate-limit signal and call k + 1 answers with a non-empty list,
\* the search makes exactly k + 1 provider calls, has slept retry_delay
\* once after each of the k failed calls and at no other time, raises
\* nothing, and returns a list built from the answer of call k + 1: without
\* a filter the answer's entries in the answer's order, each with contents.
C7_RetryUntilResults ==
    provHist.last = "results" =>
        /\ attempt = provHist.nTransient + 1
        /\ attempt <= ddg_retries
        /\ searchSleeps = [i \in 1..provHist.nTransient |-> ddg_retry_delay]
        /\ spc \in {"fetch", "done"}
        /\ sraised = ""
        /\ spc = "done" =>
              /\ sretval.t = "list"
              /\ filter_func = NoFilter =>
                    /\ Hrefs(sretval.v) = Hrefs(ProviderAnswer)
                    /\ \A i \in 1..Len(sretval.v) :
                          /\ HasContents(sretval.v[i])
                          /\ sretval.v[i].contents.t = "str"

\* C7 witness: empty, empty, non-empty with retries >= 3 returned the
\* two results of the third call.
C7_Witness ==
    /\ spc = "done" /\ ddg_retries >= 3
    /\ provHist = [last |-> "results", nTransient |-> 2, emptyOnly |-> TRUE]
    /\ attempt = 3 /\ Len(searchSleeps) = 2
    /\ filter_func = NoFilter /\ num_results = 0
    /\ sretval.t = "list" /\ Hrefs(sretval.v) = <<UrlCom, UrlJp>>

\* C8: when all `retries` provider calls end in a rate-limit signal or an
\* empty list, no further provider call is made, no page is fetched, and the
\* search returns one error string that begins "Failed to get search
\* results, reason:" and names the retry count.
C8_ExhaustionReturnsError ==
    /\ provHist.nTransient <= ddg_retries
    /\ (provHist.nTransient = ddg_retries
        /\ provHist.last \in TransientKinds \cup {"none"}) =>
          /\ attempt = ddg_retries
          /\ spc \in {"idle", "sleep", "done"}
          /\ tasks = <<>> /\ nFetchCalls = 0 /\ nGets = 0
          /\ sraised = ""
          /\ spc = "done" =>
                /\ IsSearchError(sretval)
                /\ SubSeq(sretval.v, 3, Len(sretval.v))
                      = Digits(ddg_retries) \o <<" retries.">>

\* C8 witness: three calls, rate-limited and empty answers mixed, ended in
\* the error string.
C8_Witness ==
    /\ spc = "done" /\ ddg_retries = 3 /\ attempt = 3
    /\ provHist.nTransient = 3 /\ ~provHist.emptyOnly
    /\ provHist.last = "empty"
    /\ Len(searchSleeps) = 3
    /\ IsSearchError(sretval)

\* C9: a provider failure other than rate-limiting ends the search at once:
\* the failing call is the last provider call, no sleep follows it, no page
\* is fetched, nothing is raised, and the value returned is an error string
\* naming the failure.
C9_OtherFailureAborts ==
    provHist.last = "DDGSException" =>
        /\ spc = "done"
        /\ attempt = provHist.nTransient + 1
        /\ Len(searchSleeps) = provHist.nTransient
        /\ tasks = <<>> /\ nFetchCalls = 0 /\ nGets = 0
        /\ sraised = ""
        /\ IsSearchError(sretval)
        /\ Contains(sretval.v, "DDGSException")

\* C9 witness: a rate-limited call, one sleep, then a call that failed
\* otherwise.
C9_Witness ==
    /\ provHist.last = "DDGSException" /\ provHist.nTransient = 1
    /\ attempt = 2 /\ Len(searchSleeps) = 1 /\ ddg_retries = 3
    /\ spc = "done" /\ IsSearchError(sretval)

\* what the configured filter returns for the provider's answer
ExpectedFilterOutput ==
    IF filter_func.kind = "keep"
    THEN FilterKeep(ProviderAnswer, filter_func.limit)
    ELSE FilterMark(ProviderAnswer, filter_func.limit)

\* C10: with a filter configured, the list returned by the sync and the
\* async search is the filter's output: the same entries in the same order,
\* where only the entries the filter marked with a contents placeholder have
\* their contents replaced by a string; so with a filter keeping the hrefs
\* that contain ".jp" and truncating to N the list has at most N entries and
\* every href contains ".jp".
C10_ReturnsFilterOutput ==
    (spc = "done" /\ sretval.t = "list" /\ filter_func # NoFilter) =>
        /\ Len(sretval.v) = Len(ExpectedFilterOutput)
        /\ \A i \in 1..Len(sretval.v) :
              /\ WithoutContents(sretval.v[i])
                    = WithoutContents(ExpectedFilterOutput[i])
              /\ HasContents(sretval.v[i]) = HasContents(ExpectedFilterOutput[i])
              /\ HasContents(sretval.v[i]) => sretval.v[i].contents.t = "str"
        /\ filter_func.kind = "keep" =>
              /\ Len(sretval.v) <= filter_func.limit
              /\ \A i \in 1..Len(sretval.v) : Contains(sretval.v[i].href, ".jp")

\* C10 witness: the async search with the keeping filter (N = 1) got two
\* ".jp" results and returned the first, its page fetched.
C10_Witness ==
    /\ spc = "done" /\ mode = "async"
    /\ filter_func = [kind |-> "keep", limit |-> 1]
    /\ Hrefs(providerResults) = <<UrlJp, UrlJp>>
    /\ sretval.t = "list" /\ Hrefs(sretval.v) = <<UrlJp>>
    /\ sretval.v[1].contents = Str(Page(UrlJp))

\* indexes of the filter's output (of the provider's answer, without a
\* filter) whose page is to be fetched
Marked ==
    {i \in 1..Len(filterOut) :
        filter_func = NoFilter \/ HasContents(filterOut[i])}

TaskIndexes == {tasks[k].i : k \in 1..Len(tasks)}

\* C11: the fetcher is called once for each eligible result and for no
\* other: every result without a filter, with a filter exactly the entries
\* of its output that carry a contents key, each with the entry's href; the
\* other entries are returned without a fetch and without a contents field.
C11_FetchesExactlyEligible ==
    spc \in {"fetch", "done"} =>
        /\ TaskIndexes = Marked
        /\ Len(tasks) = Cardinality(Marked)
        /\ \A k \in 1..Len(tasks) : tasks[k].url = filterOut[tasks[k].i].href
        /\ nFetchCalls = Cardinality({k \in 1..Len(tasks) : tasks[k].pc # "new"})
        /\ (spc = "done" /\ sretval.t = "list") =>
              /\ nFetchCalls = Cardinality(Marked)
              /\ \A i \in 1..Len(sretval.v) :
                    IF i \in Marked
                    THEN /\ HasContents(sretval.v[i])
                         /\ sretval.v[i].contents.t = "str"
                    ELSE ~HasContents(sretval.v[i])

\* C11 witness: the marking filter returned a ".com" entry without the key
\* and a ".jp" entry with it; one page was fetched and only the ".jp"
\* entry has contents.
C11_Witness ==
    /\ spc = "done" /\ mode = "sync" /\ cleaning = "none"
    /\ filter_func = [kind |-> "mark", limit |-> 2]
    /\ Hrefs(providerResults) = <<UrlCom, UrlJp>>
    /\ nFetchCalls = 1 /\ nGets = 1
    /\ sretval.t = "list" /\ Len(sretval.v) = 2
    /\ ~HasContents(sretval.v[1])
    /\ sretval.v[2].contents = Str(Page(UrlJp))

\* value is what a fetch of url can return
FetchedFor(url, value) ==
    \/ value = Str(CleanHtml(Page(url), cleaning))
    \/ value = EmptyContentsError(url)
    \/ value = FetchExceptionError("ConnectError")
    \/ url \in DOMAIN cache.data /\ value = cache.data[url]

\* C12: in the async search the fetches of the eligible results are in
\* flight together, and whatever the order in which they return, result i
\* ends with the value returned by the fetch of result i's own href.
C12_AsyncRejoinsByIndex ==
    (mode = "async" /\ spc = "done" /\ sretval.t = "list") =>
        \A k \in 1..Len(tasks) :
            LET result == sretval.v[tasks[k].i]
            IN  /\ HasContents(result)
                /\ result.contents.t = "str"
                /\ result.contents = tasks[k].ret
                /\ tasks[k].url = result.href
                /\ FetchedFor(result.href, result.contents)

\* C12 witness: the fetch of the second result returned while the fetch of
\* the first was still retrying; each result holds the page of its own href.
C12_Witness ==
    /\ mode = "async" /\ spc = "done" /\ cleaning = "none"
    /\ filter_func = NoFilter
    /\ sretval.t = "list" /\ Hrefs(sretval.v) = <<UrlCom, UrlJp>>
    /\ Len(tasks) = 2 /\ tasks[2].overtook /\ tasks[1].gets = 2
    /\ sretval.v[1].contents = Str(Page(UrlCom))
    /\ sretval.v[2].contents = Str(Page(UrlJp))

\* C24: retries <= 0 is an unbounded budget: the search keeps calling the
\* provider and never returns the error of an exhausted budget.
C24_NonPositiveBudgetNeverGivesUp ==
    (ddg_retries <= 0 /\ spc = "done") => sretval # EmptyResultsError

\* the cache after one whole operation made by the fetch of task k: the
\* lookup of its url, or the add of the content it fetched
WholeCacheOperations(k) ==
    {CacheGetOr(cache, tasks[k].url, None, now).cache} \cup
        (IF tasks'[k].website_contents.t = "str"
         THEN {CacheAdd(cache, tasks[k].url, tasks'[k].website_contents,
                        now).cache}
         ELSE {})

\* C34: while the page fetches of an async search interleave on one cache,
\* every step that changes the cache is the step of one task and applies
\* one whole cache operation (lookup or add, its eviction pass included):
\* no task is suspended inside an operation, so none meets a cache that is
\* part-way through an update.
C34_CacheOperationsAreAtomic ==
    [][(mode = "async" /\ cache' # cache) =>
          \E k \in 1..Len(tasks) :
              /\ Len(tasks') = Len(tasks)
              /\ tasks'[k] # tasks[k]
              /\ \A j \in 1..Len(tasks) : j # k => tasks'[j] = tasks[j]
              /\ cache' \in WholeCacheOperations(k)]_vars

\* C34 witness: an async search ran two fetches on a crowded cache; the
\* lookup of the first ran the due eviction pass, the second looked up the
\* cache the pass left
C34_Witness ==
    /\ mode = "async"
    /\ spc = "done"
    /\ Len(tasks) = 2
    /\ cache.present
    /\ cache.gc_timing = 3
    /\ cache.num_of_calling = 4
    /\ CacheLen(cache) = 1

\* C40: the empty-result check is made on the provider's answer only: when
\* the provider returned a non-empty list and the filter returns an empty
\* one, the search makes no further provider call, fetches no page, raises
\* nothing and returns the empty list, not an error string.
C40_EmptyFilterOutputIsReturned ==
    (/\ provHist.last = "results"
     /\ filter_func # NoFilter
     /\ ExpectedFilterOutput = <<>>) =>
        /\ spc \in {"fetch", "done"}
        /\ attempt = provHist.nTransient + 1
        /\ tasks = <<>>
        /\ nFetchCalls = 0
        /\ nGets = 0
        /\ sraised = ""
        /\ spc = "done" => sretval = List(<<>>)

\* C40 witness: the provider answered with two ".com" results on its second
\* call, the filter that keeps ".jp" results returned none, and the search
\* returned the empty list
C40_Witness ==
    /\ spc = "done"
    /\ filter_func = [kind |-> "keep", limit |-> 1]
    /\ provHist.last = "results" /\ provHist.nTransient = 1
    /\ Hrefs(providerResults) = <<UrlCom, UrlCom>>
    /\ attempt = 2
    /\ nFetchCalls = 0
    /\ sretval = List(<<>>)

----------------------------------------------------------------------------
(* Properties of one search without a cache (BareSearchSpec) *)

IsFetchError(value) ==
    /\ value.t = "str"
    /\ Len(value.v) >= 1
    /\ value.v[1] = "Failed to get website contents, reason: "

\* C39: without a cache, a search that obtained results raises nothing and
\* returns the list in which every eligible result has a non-empty string
\* as contents, the cleaned page of its own href or an error string that
\* begins "Failed to get website contents, reason:"; every fetch runs to
\* its end whatever the others did, each result holds what its own fetch
\* returned, and the other results are returned as the filter left them.
C39_EveryEligibleResultHasContents ==
    ~cache.present =>
        /\ sraised = ""
        /\ spc # "raised"
        /\ (spc = "done" /\ provHist.last = "results") =>
              /\ sretval.t = "list"
              /\ Len(sretval.v) = Len(filterOut)
              /\ \A k \in 1..Len(tasks) :
                    /\ tasks[k].pc = "done"
                    /\ sretval.v[tasks[k].i].contents = tasks[k].ret
              /\ \A i \in 1..Len(sretval.v) :
                    IF i \in Marked
                    THEN /\ HasContents(sretval.v[i])
                         /\ sretval.v[i].contents.t = "str"
                         /\ Truthy(sretval.v[i].contents)
                         /\ \/ sretval.v[i].contents
                                  = Str(CleanHtml(Page(sretval.v[i].href), cleaning))
                            \/ IsFetchError(sretval.v[i].contents)
                         /\ WithoutContents(sretval.v[i])
                               = WithoutContents(filterOut[i])
                    ELSE sretval.v[i] = filterOut[i]

\* C39 witness: in an async search the fetch of the first result met a
\* transport error, the fetch of the second got only empty bodies and the
\* budget ran out; both results carry their own error string
C39_Witness ==
    /\ mode = "async" /\ spc = "done" /\ ~cache.present
    /\ filter_func = NoFilter /\ ddg_retries = 2
    /\ sretval.t = "list" /\ Hrefs(sretval.v) = <<UrlCom, UrlJp>>
    /\ sretval.v[1].contents = FetchExceptionError("ConnectError")
    /\ tasks[2].last = "blank" /\ tasks[2].gets = 2
    /\ sretval.v[2].contents = EmptyContentsError(UrlJp)

----------------------------------------------------------------------------
(* Properties of the fetcher called directly (FetchSpec) *)

\* sequence part occurs in sequence s as a run of consecutive fragments
HasRun(s, part) ==
    \E i \in 0..(Len(s) - Len(part)) : SubSeq(s, i + 1, i + Len(part)) = part

\* the call has returned and no GET of it was answered with a body or a
\* connection error: each was answered with a failure status
OnlyStatusFailures(task) ==
    /\ task.pc = "done"
    /\ task.website_contents = None
    /\ task.ret # FetchExceptionError("ConnectError")

\* C13: a fetch of a non-empty url the cache does not hold (with or without
\* a cache), all of whose GETs are answered with a failure status, issues
\* exactly `retries` GETs and returns an error string containing the url and
\* the retry count.
C13_AlwaysFailingTransport ==
    \A k \in 1..Len(tasks) :
        (tasks[k].url # <<>> /\ tasks[k].held = Unset
         /\ OnlyStatusFailures(tasks[k])) =>
            /\ tasks[k].gets = ddg_retries
            /\ IsFetchError(tasks[k].ret)
            /\ HasRun(tasks[k].ret.v, tasks[k].url)
            /\ HasRun(tasks[k].ret.v, <<" after ">> \o Digits(ddg_retries))

\* C14: a fetch of an empty url returns "Failed to get website contents,
\* reason: No url was provided." at once: it issues no GET, does not sleep
\* and leaves the cache (its call counter included) as it was.
C14_EmptyUrlReturnsAtOnce ==
    /\ [](\A k \in 1..Len(tasks) :
             tasks[k].url = <<>> =>
                 /\ tasks[k].pc \in {"new", "done"}
                 /\ tasks[k].gets = 0 /\ tasks[k].attempt = 0
                 /\ tasks[k].pc = "done" =>
                       /\ IsFetchError(tasks[k].ret)
                       /\ tasks[k].ret.v[2] = "No url was provided.")
    /\ [][\A k \in 1..Len(tasks) :
             (tasks[k].url = <<>> /\ tasks[k].pc = "new"
              /\ tasks'[k].pc # "new") =>
                 /\ tasks'[k].pc = "done"
                 /\ cache' = cache
                 /\ nGets' = nGets
                 /\ nFetchSleeps' = nFetchSleeps]_vars

\* C14 witness: with three retries and a cache holding one page, the fetch
\* of the empty url has returned its error string; no GET, no sleep, and
\* the cache has counted only the caller's add.
C14_Witness ==
    /\ mode = "direct" /\ ddg_retries = 3
    /\ Len(tasks) = 1 /\ tasks[1].url = <<>> /\ tasks[1].pc = "done"
    /\ tasks[1].ret = Str(<<"Failed to get website contents, reason: ",
                            "No url was provided.">>)
    /\ CacheTruthy(cache) /\ cache.num_of_calling = 1
    /\ nGets = 0 /\ nFetchSleeps = 0 /\ nFetchCalls = 1

\* C15: with a cache configured that does not hold the url, the fetch goes
\* to the network, and when it retrieves non-empty cleaned content the cache
\* holds that content under the url when the fetch returns.
C15_MissIsFetchedAndStored ==
    \A k \in 1..Len(tasks) :
        (cache.present /\ tasks[k].pc = "done" /\ tasks[k].url # <<>>
         /\ tasks[k].held = Unset /\ ddg_retries > 0) =>
            /\ tasks[k].gets >= 1
            /\ Truthy(tasks[k].website_contents) =>
                  /\ tasks[k].url \in DOMAIN cache.data
                  /\ cache.data[tasks[k].url] = tasks[k].ret

\* C16: a fetch of a url the cache holds when the fetch is called returns
\* the held value and issues no GET, however often it is repeated.
C16_HitReturnsCachedValue ==
    \A k \in 1..Len(tasks) :
        (tasks[k].pc # "new" /\ tasks[k].held # Unset) =>
            /\ tasks[k].pc = "done"
            /\ tasks[k].ret = tasks[k].held
            /\ tasks[k].gets = 0

\* task k issues a GET in this step
Gets(k) == k <= Len(tasks) /\ tasks'[k].gets = tasks[k].gets + 1

\* the cleaned content of the body the latest GET of `task` was answered with
LastCleaned(task) == Str(CleanHtml(Body(task.last, task.url), cleaning))

\* C29: in the fetch loop a GET answered with a failure status or with a
\* page whose cleaned content is empty is followed by a retry_delay sleep
\* and, while iterations remain, by another GET; a GET that raises any
\* other exception ends the fetch at once with a descriptive error string:
\* no sleep, no further GET, nothing raised.
C29_OnlyStatusAndEmptyAreRetried ==
    [][\A k \in 1..MaxFetches :
          Gets(k) =>
             LET t == tasks'[k]
                 failed == t.last = "status"
                 other == t.last = "ConnectError"
                 empty == ~failed /\ ~other /\ ~Truthy(LastCleaned(t))
             IN  /\ (failed \/ empty) =>
                       /\ nFetchSleeps' = nFetchSleeps + 1
                       /\ t.attempt < ddg_retries => t.pc = "get"
                       /\ t.attempt = ddg_retries =>
                             (t.pc = "done" /\ t.ret = EmptyContentsError(t.url))
                 /\ other =>
                       /\ nFetchSleeps' = nFetchSleeps
                       /\ t.pc = "done"
                       /\ t.ret = FetchExceptionError("ConnectError")
                       /\ sraised' = ""
                 /\ t.pc = "get" => (failed \/ empty)]_vars

\* C29 witness: with three retries the first GET was answered with a
\* failure status, the second with a page that cleans to nothing (two
\* sleeps), the third raised ConnectError: the fetch returned the error
\* string after three GETs and two sleeps.
C29_Witness ==
    /\ mode = "direct" /\ ddg_retries = 3 /\ cleaning = "remove_tags"
    /\ Len(tasks) = 1 /\ tasks[1].pc = "done"
    /\ tasks[1].last = "ConnectError" /\ tasks[1].gets = 3
    /\ tasks[1].website_contents = Str(<<>>)
    /\ nFetchSleeps = 2 /\ nGets = 3
    /\ tasks[1].ret = FetchExceptionError("ConnectError")
    /\ sraised = ""

----------------------------------------------------------------------------
(* Properties of the two page fetchers (TwinsSpec) *)

\* C30: started from the same cache and given the same url and the same
\* transport answers, the synchronous and the asynchronous fetcher issue
\* the same number of GETs, sleep as often, return the same value (or let
\* the same exception escape) and leave the cache in the same state.
C30_FetchersAgree ==
    (fetchRuns.sync # Unset /\ fetchRuns.async # Unset) =>
        /\ fetchRuns.sync.gets = fetchRuns.async.gets
        /\ fetchRuns.sync.sleeps = fetchRuns.async.sleeps
        /\ fetchRuns.sync.ret = fetchRuns.async.ret
        /\ fetchRuns.sync.raised = fetchRuns.async.raised
        /\ fetchRuns.sync.cache = fetchRuns.async.cache

\* C30 witness: no cache, three retries; the GETs were answered with a
\* failure status, a page that cleans to nothing, and a page: both fetchers
\* have run, each issued three GETs, slept twice and returned the page.
C30_Witness ==
    /\ ~cache.present /\ ddg_retries = 3 /\ cleaning = "remove_tags"
    /\ fetchRuns.url = UrlJp
    /\ fetchRuns.answers[1] = "status" /\ fetchRuns.answers[2] = "script_only"
    /\ fetchRuns.answers[3] = "page"
    /\ fetchRuns.sync # Unset /\ fetchRuns.async # Unset
    /\ fetchRuns.async.gets = 3 /\ fetchRuns.async.sleeps = 2
    /\ fetchRuns.async.ret = Str(CleanHtml(Page(UrlJp), "remove_tags"))
    /\ fetchRuns.sync.ret = fetchRuns.async.ret

----------------------------------------------------------------------------
(* Properties of the cache (CacheSpec) *)

\* this step is a set whose eviction pass was due
SetWithPass ==
    /\ cacheHist'.nOps = cacheHist.nOps + 1
    /\ cacheHist'.op = "set"
    /\ GcDue(cache')

\* this step is an operation whose eviction pass ran to its end
PassCompleted ==
    /\ cacheHist'.nOps = cacheHist.nOps + 1
    /\ cacheHist'.op \in {"set", "get", "delete"}
    /\ cacheHist'.exc = ""
    /\ GcDue(cache')

\* when each key was set, as the pass of a set of key at time t finds it
CreatedAtPass == DictSet(cacheHist.created, cacheHist'.key, now)

\* C17: after set operations only (keys may repeat) and with max_size >= 0,
\* an eviction pass raises nothing, leaves at most max_size entries, and
\* removes no entry while an entry set earlier remains.
C17_SizeEvictionOldestFirst ==
    [][(cacheHist.onlySets /\ SetWithPass /\ cache.max_size >= 0) =>
          /\ cacheHist'.exc = ""
          /\ CacheLen(cache') <= cache.max_size
          /\ \A r \in DOMAIN CreatedAtPass \ DOMAIN cache'.data :
                \A q \in DOMAIN cache'.data :
                    CreatedAtPass[r] <= CreatedAtPass[q]]_vars

\* C18: with max_age >= 0, right after an eviction pass no entry of the
\* cache is older than max_age, whatever newer entries it holds.
C18_NoStaleEntryAfterPass ==
    [][(PassCompleted /\ cache.max_age >= 0) =>
          \A k \in DOMAIN cache'.data :
              now - cacheHist'.created[k] <= cache.max_age]_vars

\* C19: get(key, default) for a key that was never set returns the default
\* and raises nothing, in every state of the cache and also when the get
\* runs an eviction pass.
C19_GetOfUnknownKeyReturnsDefault ==
    (cacheHist.op = "get" /\ cacheHist.key \notin cacheHist.everSet) =>
        /\ cacheHist.exc = ""
        /\ cacheHist.value = DefaultSentinel

\* the positions of metadata that hold a record of key
RecordsOf(c, key) == {i \in 1..Len(c.metadata) : c.metadata[i][1] = key}

\* C31: in every state of the cache, after any sequence of set, get, delete
\* and clear, every key of data has exactly one (key, create-time) record in
\* metadata and every record of metadata names a key of data.
C31_RecordsMatchKeys ==
    mode = "cache" =>
        /\ \A key \in DOMAIN cache.data :
               Cardinality(RecordsOf(cache, key)) = 1
        /\ \A i \in 1..Len(cache.metadata) :
               cache.metadata[i][1] \in DOMAIN cache.data

\* this step is one operation of the caller on the cache
CacheOperation == cacheHist'.nOps = cacheHist.nOps + 1

\* C32: every operation of the cache (get, set, delete, contains, clear,
\* size) adds exactly one to the call counter num_of_calling.
C32_EveryOperationCounts ==
    [][CacheOperation =>
          cache'.num_of_calling = cache.num_of_calling + 1]_vars

\* C33: an operation runs an eviction pass exactly when gc_timing <= 0 or
\* the call counter after the operation is a multiple of gc_timing, and an
\* operation that runs no pass removes no entry but the one it was asked to
\* delete.
C33_PassExactlyWhenDue ==
    [][CacheOperation =>
          /\ cacheHist'.gc <=> GcDue(cache')
          /\ ~cacheHist'.gc =>
                DOMAIN cache.data \ DOMAIN cache'.data \subseteq
                    (IF cacheHist'.op = "delete" THEN {cacheHist'.key}
                     ELSE {})]_vars

\* the caller has only set keys, each at most once, and looked keys up
DistinctSetsAndGets ==
    /\ mode = "cache"
    /\ cacheHist.onlySetGet
    /\ ~cacheHist.setTwice

\* C38: for a cache with max_size >= 0 on which only sets of pairwise
\* distinct keys and gets were made: with gc_timing = c > 0 the size never
\* exceeds max_size + c - 1 and is at most max_size right after every
\* operation whose call count is a multiple of c; with c <= 0 the size is at
\* most max_size after every operation.
C38_SizeBoundedBetweenPasses ==
    (DistinctSetsAndGets /\ cache.max_size >= 0) =>
        IF cache.gc_timing > 0
        THEN /\ CacheLen(cache) <= cache.max_size + cache.gc_timing - 1
             /\ (cacheHist.nOps > 0
                   /\ cache.num_of_calling % cache.gc_timing = 0)
                  => CacheLen(cache) <= cache.max_size
        ELSE CacheLen(cache) <= cache.max_size

\* C38 witness: two distinct keys were set into a cache of max_size 1 and
\* gc_timing 3, which then held two entries, and the third operation, a
\* get, ran the pass that brought it back to one
C38_Witness ==
    /\ DistinctSetsAndGets
    /\ cache.max_size = 1
    /\ cache.gc_timing = 3
    /\ cache.num_of_calling = 3
    /\ Cardinality(cacheHist.everSet) = 2
    /\ cacheHist.op = "get"
    /\ cacheHist.gc
    /\ CacheLen(cache) = 1

----------------------------------------------------------------------------
(* Properties of separately constructed DDGSearch objects (InstancesSpec) *)

\* the cache object client j sees through self.cache
CacheOf(j) == instances.heap[instances.clients[j].cache]

\* C35: of two DDGSearch objects constructed separately and without a cache
\* argument, an add, get or clear made through one never changes the cache
\* the other holds.
C35_DefaultCachesAreSeparate ==
    [][\A i, j \in 1..Len(instances.clients) :
          (/\ i # j
           /\ instances.clients[i].arg = "omitted"
           /\ instances.clients[j].arg = "omitted"
           /\ instances'.nOps = instances.nOps + 1
           /\ instances'.by = i)
          => instances'.heap[instances'.clients[j].cache] = CacheOf(j)]_vars

====
